---- MODULE Spec2Model ----
(***************************************************************************)
(* A model of the GlobalPlatform content-management agent (GPAgent) and    *)
(* of its two secure-channel engines (SCP02, SCP03).                       *)
(*                                                                         *)
(* Byte strings are sequences of integers.  A value 0..255 is a concrete   *)
(* byte; a negative value -i is the opaque i-th byte of the CAP payload    *)
(* (the code only slices and concatenates payload bytes).  The results of  *)
(* block ciphers and MACs are symbolic terms: a key is a record naming the *)
(* static key it comes from and its derivation context, an encrypted body  *)
(* names its key and IV, and a MAC is the list of the inputs chained into  *)
(* it.  Two terms are equal exactly when they are built the same way.      *)
(***************************************************************************)
EXTENDS Integers, Sequences, FiniteSets, TLC

VARIABLES
    agent,   \* GPAgent: is_mutually_authenticated, has_scp (scp_imp is not None)
    scp,     \* the engine object scp_imp refers to (fields of SCP02 / SCP03)
    card,    \* what the connected card is: recognition data, key info, keys
    settings,\* the run's settings: security level, static keys, SD AID
    call,    \* the last agent call: operation, result, APDU exchanges in order
    ghost    \* history: is the secure session really established right now

vars == <<agent, scp, card, settings, call, ghost>>

-----------------------------------------------------------------------------
(* Bounds of the model                                                     *)

MaxNonce == 1        \* host challenges / card nonces are drawn from 0..MaxNonce
MaxChain == 2        \* an agent call starts only while fewer MACs are chained
MaxCounter == 2      \* ... and while the SCP03 counter is below this
MaxMore == 1         \* 63 10 (more data) answers per GET STATUS kind
MaxPayload == 1      \* payload bytes of a load in the session model
MaxLen == 260        \* payload bytes of a load in the load model
MaxHints == 2        \* length of a chunk-hint list in the load model
MaxFail == 2         \* the exchange of a load that fails is one of 0..MaxFail
MaxOrderHints == 2   \* items in a requested order of components
MaxGetResponse == 2  \* 61 xx answers of the card in one call of the reader
MaxSends == 4        \* commands on a session of the counter model
MaxListMore == 2     \* 63 10 answers per GET STATUS kind in the command model
MaxAid == 16         \* the longest AID of the command model
MaxParams == 120     \* the longest load / install parameters of the command model

-----------------------------------------------------------------------------
(* Program constants                                                       *)

SCP_SECLEVEL_NO_SECURITY_LEVEL == 0
SCP_SECLEVEL_C_MAC == 1
SCP_SECLEVEL_C_DECRYPTION == 2
KEY_LENGTH_2K3DES == 16
DEFAULT_CHUNCK_SIZE == 100
SCP02_BLOCK == 8
SCP03_BLOCK == 16
SCP02_MAC_LEN == 8
SCP02_RESP_LEN == 28
KEY_40_4F_LEN == 16

SW_OK == <<144, 0>>          \* 90 00
SW_MORE == <<99, 16>>        \* 63 10
SW_WRONG_LEN == <<103, 0>>   \* 67 00
SW_COND == <<105, 133>>      \* 69 85
SW_RAISE == <<0, 0>>         \* the reader raised instead of answering

CardSWs == {SW_OK, SW_COND}

-----------------------------------------------------------------------------
(* Helpers on integers and byte strings                                    *)

Min(a, b) == IF a < b THEN a ELSE b

HasBit(x, b) == (x \div b) % 2 = 1

\* cla | 0x04
Or4(cla) == IF HasBit(cla, 4) THEN cla ELSE cla + 4

\* bytes(list) succeeds: every item is a byte (payload bytes are opaque bytes)
AllBytes(seq) == \A i \in 1..Len(seq) : seq[i] <= 255

Drop(seq, n) == IF Len(seq) <= n THEN <<>> ELSE SubSeq(seq, n + 1, Len(seq))

Take(seq, n) == SubSeq(seq, 1, Min(n, Len(seq)))

Reverse(seq) == [i \in 1..Len(seq) |-> seq[Len(seq) + 1 - i]]

Zeros(n) == [i \in 1..n |-> 0]

-----------------------------------------------------------------------------
(* Symbolic keys, bodies, MACs and APDUs on the wire                       *)

NoCtx == <<<<>>, 0, 0>>

NoKey == [kind |-> "none", name |-> "", len |-> 0, lbl |-> "", ctx |-> NoCtx]

StaticKey(name, len) ==
    [kind |-> "static", name |-> name, len |-> len, lbl |-> "", ctx |-> NoCtx]

DerivedKey(static, lbl, len, ctx) ==
    [kind |-> "session", name |-> static.name, len |-> len, lbl |-> lbl, ctx |-> ctx]

\* the data field of an APDU: plain bytes, or a symbolic term over them;
\* iv is the block the IV is made of and ivkey the key that block was
\* encrypted under to give the IV (NoKey: the block itself is the IV)
PlainBody(data) ==
    [data |-> data, sym |-> "plain", key |-> NoKey, iv |-> 0, ivkey |-> NoKey,
     ctx |-> NoCtx, size |-> Len(data)]

\* cipher.encrypt(pad80(data)) under key with the given IV
EncBody(data, key, iv, blk) ==
    [data |-> data, sym |-> "enc", key |-> key, iv |-> iv, ivkey |-> NoKey, ctx |-> NoCtx,
     size |-> Len(data) + (blk - (Len(data) % blk))]

\* a host or card cryptogram: a keyed function of the challenges
CryptBody(who, key, ctx, size) ==
    [data |-> <<>>, sym |-> who, key |-> key, iv |-> 0, ivkey |-> NoKey,
     ctx |-> ctx, size |-> size]

NoMac == [size |-> 0, chain |-> <<>>]

PlainWire(command) ==
    [hdr |-> Take(command, 5), body |-> PlainBody(Drop(command, 5)), mac |-> NoMac]

IsPlainWire(w) == w.body.sym = "plain" /\ w.mac = NoMac

WireBytes(w) == w.hdr \o w.body.data

IsSelect(command) == Take(command, 3) = <<0, 164, 4>>

\* results of an engine method: the engine afterwards, what it handed to the
\* reader (if anything), and whether it returned True / raised an exception
Wrapped(s, wire) == [s |-> s, wire |-> wire, sends |-> TRUE, raised |-> FALSE]

Raised(s) == [s |-> s, wire |-> PlainWire(<<>>), sends |-> FALSE, raised |-> TRUE]

-----------------------------------------------------------------------------
(* The engine object: one record for both classes, tagged by proto         *)

NoEngine ==
    [proto |-> "NONE", sec_level |-> 0, i_param |-> 0,
     static_enc |-> NoKey, static_mac |-> NoKey, static_dek |-> NoKey,
     session_enc |-> NoKey, session_mac |-> NoKey, session_dek |-> NoKey,
     last_mac |-> <<>>, mac_chain |-> <<>>,
     encryption_counter |-> 0, is_mutually_authenticated |-> FALSE,
     challenges_len |-> 0, mac_len |-> 0,
     host_challenge |-> <<>>, card_challenge |-> 0, sequence_counter |-> 0]

SCP02_init(static_enc, static_mac, static_dek) ==
    [NoEngine EXCEPT !.proto = "SCP02", !.static_enc = static_enc,
                     !.static_mac = static_mac, !.static_dek = static_dek]

SCP03_init(static_enc, static_mac, static_dek, i_param) ==
    [NoEngine EXCEPT !.proto = "SCP03", !.static_enc = static_enc,
                     !.static_mac = static_mac, !.static_dek = static_dek,
                     !.i_param = i_param]

SCP02_reset_session(s) ==
    [s EXCEPT !.sec_level = 0, !.session_enc = NoKey, !.session_mac = NoKey,
              !.session_dek = NoKey, !.last_mac = <<>>]

\* a variant that keeps the chaining value
SCP03_reset_keeps_chain(s) ==
    [s EXCEPT !.sec_level = 0, !.session_enc = NoKey, !.session_mac = NoKey,
              !.encryption_counter = 0, !.is_mutually_authenticated = FALSE]

SCP03_reset_session(s) ==
    [s EXCEPT !.sec_level = 0, !.session_enc = NoKey, !.session_mac = NoKey,
              !.mac_chain = <<>>, !.encryption_counter = 0,
              !.is_mutually_authenticated = FALSE]

\* the IV of a MAC: what it is made of ("zero": ZERO_IV_8B, "des": the
\* previous MAC encrypted with single DES), the key and how many of its
\* leading bytes make the DES key
ZeroIv == [sym |-> "zero", key |-> NoKey, part |-> 0]

\* a variant that starts every MAC from the zero IV
SCP02_mac_iv_zero(s) == ZeroIv

\* _calc_mac lines 79-82: the zero IV while last_mac is None, afterwards
\* DES.new(self.session_mac[:8], ECB).encrypt(self.last_mac)
SCP02_mac_iv(s) ==
    IF s.last_mac = <<>> THEN ZeroIv
    ELSE [sym |-> "des", key |-> s.session_mac, part |-> 8]

\* SCP02: the retail MAC chains on last_mac (None = empty chain); the new
\* last_mac is a function of the IV, that is of the MACs before it, and of
\* the command; kept is the number of bytes of it the engine keeps
SCP02__calc_mac(s, hdr, body) ==
    [s EXCEPT !.last_mac = Append(@, [key |-> s.session_mac, hdr |-> hdr, body |-> body,
                                      iv |-> SCP02_mac_iv(s), kept |-> SCP02_MAC_LEN])]

\* a variant that keeps in the chain only the bytes appended to the command
SCP03_chain_len_truncated(s) == s.mac_len

\* self.mac_chain = cmac.digest(): the whole AES block
SCP03_chain_len(s) == SCP03_BLOCK

\* SCP03: the CMAC runs over mac_chain followed by the command, without IV
SCP03__calc_mac(s, hdr, body) ==
    [s EXCEPT !.mac_chain = Append(@, [key |-> s.session_mac, hdr |-> hdr, body |-> body,
                                       iv |-> ZeroIv, kept |-> SCP03_chain_len(s)])]

\* a variant that never takes a command for a SELECT
select_never_resets(command) == FALSE

\* the select test at the head of SCP02.send_secure_apdu
SCP02_select_resets(command) == IsSelect(command)

\* the select test at the head of SCP03.send_secure_apdu
SCP03_select_resets(command) == IsSelect(command)

SCP02_send_secure_apdu(s0, command) ==
    LET s1 == IF SCP02_select_resets(command) THEN SCP02_reset_session(s0) ELSE s0
    IN  IF Len(command) < 5 THEN Raised(s1)
        ELSE
        LET cla == command[1]
            ins == command[2]
            p1 == command[3]
            p2 == command[4]
            lc == command[5]
            data == Drop(command, 5)
            lvl == s1.sec_level
            wantMac == HasBit(lvl, SCP_SECLEVEL_C_MAC)
            wantEnc == lc > 5 /\ HasBit(lvl, SCP_SECLEVEL_C_DECRYPTION)
            macHdr == <<Or4(cla), ins, p1, p2, lc + SCP02_MAC_LEN>>
        IN  IF wantMac /\ (~AllBytes(macHdr \o data) \/ s1.session_mac = NoKey)
            THEN Raised(s1)
            ELSE
            LET s2 == IF wantMac THEN SCP02__calc_mac(s1, macHdr, PlainBody(data)) ELSE s1
                mac == [size |-> SCP02_MAC_LEN, chain |-> s2.last_mac]
                enc == EncBody(data, s2.session_enc, 0, SCP02_BLOCK)
            IN  IF wantEnc /\ (~AllBytes(data) \/ s2.session_enc = NoKey)
                THEN Raised(s2)
                ELSE IF lvl = SCP_SECLEVEL_NO_SECURITY_LEVEL
                THEN Wrapped(s2, PlainWire(command))
                ELSE IF lvl = SCP_SECLEVEL_C_MAC
                THEN Wrapped(s2, [hdr |-> macHdr, body |-> PlainBody(data), mac |-> mac])
                ELSE IF lvl = SCP_SECLEVEL_C_MAC + SCP_SECLEVEL_C_DECRYPTION
                THEN IF ~wantEnc
                     THEN Raised(s2)   \* encrypted_data was never assigned
                     ELSE Wrapped(s2, [hdr |-> <<Or4(cla), ins, p1, p2, mac.size + enc.size>>,
                                       body |-> enc, mac |-> mac])
                ELSE Raised(s2)        \* secure_command was never assigned

\* a variant that counts every command, authenticated or not
SCP03_count_always(s) == [s EXCEPT !.encryption_counter = @ + 1]

\* a variant that leaves the counter alone
SCP03_count_never(s) == s

\* if self.is_mutually_authenticated: self.encryption_counter += 1
SCP03_count(s) ==
    IF s.is_mutually_authenticated THEN [s EXCEPT !.encryption_counter = @ + 1] ELSE s

\* iv = self.encryption_counter.to_bytes(AES.block_size, "big"): the counter
\* block is handed to AES-CBC as it is, encrypted under no key
SCP03_iv_key(s) == NoKey

SCP03_send_secure_apdu(s0, command) ==
    LET s1 == IF SCP03_select_resets(command) THEN SCP03_reset_session(s0) ELSE s0
    IN  IF Len(command) < 5 THEN Raised(s1)
        ELSE
        LET cla == command[1]
            ins == command[2]
            p1 == command[3]
            p2 == command[4]
            data == Drop(command, 5)
            lvl == s1.sec_level
            wantEnc == data # <<>> /\ HasBit(lvl, SCP_SECLEVEL_C_DECRYPTION)
            wantMac == HasBit(lvl, SCP_SECLEVEL_C_MAC)
            body == IF wantEnc
                    THEN [EncBody(data, s1.session_enc, s1.encryption_counter, SCP03_BLOCK)
                             EXCEPT !.ivkey = SCP03_iv_key(s1)]
                    ELSE PlainBody(data)
            macHdr == <<Or4(cla), ins, p1, p2, body.size + s1.mac_len>>
        IN  IF wantEnc /\ (~AllBytes(data) \/ s1.session_enc = NoKey)
            THEN Raised(s1)
            ELSE IF wantMac /\ (~AllBytes(macHdr) \/ ~AllBytes(body.data)
                                \/ s1.session_mac = NoKey)
            THEN Raised(s1)
            ELSE
            LET s2 == IF wantMac THEN SCP03__calc_mac(s1, macHdr, body) ELSE s1
                mac == IF wantMac THEN [size |-> s1.mac_len, chain |-> s2.mac_chain]
                                  ELSE NoMac
                wire == IF lvl = SCP_SECLEVEL_NO_SECURITY_LEVEL
                        THEN PlainWire(command)
                        ELSE [hdr |-> <<Or4(cla), ins, p1, p2, body.size + mac.size>>,
                              body |-> body, mac |-> mac]
            IN  Wrapped(SCP03_count(s2), wire)

send_secure_apdu(s, command) ==
    IF s.proto = "SCP02" THEN SCP02_send_secure_apdu(s, command)
                         ELSE SCP03_send_secure_apdu(s, command)

-----------------------------------------------------------------------------
(* Session keys and cryptograms                                            *)

\* SCP02._calc_session_key: 3DES-CBC of constant | sequence counter, 24 bytes
SCP02__calc_session_key(static_key, lbl, sequence_counter) ==
    DerivedKey(static_key, lbl, 24, <<<<>>, 0, sequence_counter>>)

\* a variant that derives the session MAC key from the static MAC key
SCP03__calc_session_keys_from_static_mac(s) ==
    LET n == (s.static_enc.len + 15) \div 16
        ctx == <<s.host_challenge, s.card_challenge, 0>>
    IN  [s EXCEPT !.session_enc = DerivedKey(s.static_enc, "ENC", 16 * n, ctx),
                  !.session_mac = DerivedKey(s.static_mac, "MAC", 16 * n, ctx)]

\* SCP03._calc_session_keys: both keys are CMACs under static_enc
SCP03__calc_session_keys(s) ==
    LET n == (s.static_enc.len + 15) \div 16
        ctx == <<s.host_challenge, s.card_challenge, 0>>
    IN  [s EXCEPT !.session_enc = DerivedKey(s.static_enc, "ENC", 16 * n, ctx),
                  !.session_mac = DerivedKey(s.static_enc, "MAC", 16 * n, ctx)]

DES3KeyOk(k) == k.kind # "none" /\ k.len \in {16, 24}

AESKeyOk(k) == k.kind # "none" /\ k.len \in {16, 24, 32}

\* the card cryptogram of SCP02, by whoever holds the session ENC key
SCP02_card_cryptogram(session_enc, host_challenge, card_challenge, sequence_counter) ==
    CryptBody("card", session_enc, <<host_challenge, card_challenge, sequence_counter>>, 8)

\* the card cryptogram of SCP03, by whoever holds the session MAC key
SCP03_card_cryptogram(session_mac, host_challenge, card_challenge, size) ==
    CryptBody("card", session_mac, <<host_challenge, card_challenge, 0>>, size)

\* results of initialize_update / external_authenticate
EngineResult(s, ok, raised) == [s |-> s, ok |-> ok, raised |-> raised]

\* SCP02.initialize_update, after the reader returned resp to
\* 80 50 00 00 08 | host_challenge; resp = [len, nonce, crypt, sw]
SCP02_init_update_sw_ok(sw) == sw = SW_OK

SCP02_cryptogram_ok(expected, got) == expected = got

SCP02_initialize_update(s0, host_challenge, resp) ==
    LET s1 == [SCP02_reset_session(s0) EXCEPT !.host_challenge = host_challenge]
    IN  IF resp.len # SCP02_RESP_LEN \/ ~SCP02_init_update_sw_ok(resp.sw)
        THEN EngineResult(s1, FALSE, FALSE)
        ELSE IF ~(DES3KeyOk(s1.static_enc) /\ DES3KeyOk(s1.static_mac)
                  /\ DES3KeyOk(s1.static_dek))
        THEN EngineResult([s1 EXCEPT !.sequence_counter = resp.nonce,
                                     !.card_challenge = resp.nonce], FALSE, TRUE)
        ELSE
        LET s2 == [s1 EXCEPT
                     !.sequence_counter = resp.nonce,
                     !.card_challenge = resp.nonce,
                     !.session_enc = SCP02__calc_session_key(s1.static_enc, "ENC", resp.nonce),
                     !.session_mac = SCP02__calc_session_key(s1.static_mac, "MAC", resp.nonce),
                     !.session_dek = SCP02__calc_session_key(s1.static_dek, "DEK", resp.nonce)]
            expected == SCP02_card_cryptogram(s2.session_enc, s2.host_challenge,
                                              s2.card_challenge, s2.sequence_counter)
        IN  EngineResult(s2, SCP02_cryptogram_ok(expected, resp.crypt), FALSE)

\* SCP03.initialize_update: the status is only logged (scp03.py 232-233)
SCP03_init_update_sw_ok(sw) == TRUE

SCP03_cryptogram_ok(expected, got) == expected = got

\* a variant that always takes the S16 mode
SCP03_challenges_len_s16(i_param) == 16

\* challenge length from the i parameter: 16 if bit 0 is set, else 8
SCP03_challenges_len(i_param) == IF i_param % 2 = 1 THEN 16 ELSE 8

\* the host challenge of SCP03: the random one is overwritten by a fixed one
SCP03_host_challenge == <<172, 12, 94, 255, 191, 193, 227, 20>>

SCP03_resp_len_ok(challenges_len, len) ==
    ~(  (challenges_len = 8 /\ len \notin {29, 32})
     \/ (challenges_len = 16 /\ len \notin {45, 48}))

SCP03_initialize_update(s0, resp) ==
    LET cl == SCP03_challenges_len(s0.i_param)
        s1 == [SCP03_reset_session(s0) EXCEPT !.challenges_len = cl, !.mac_len = cl,
                                              !.host_challenge = SCP03_host_challenge]
    IN  IF ~SCP03_init_update_sw_ok(resp.sw) \/ ~SCP03_resp_len_ok(cl, resp.len)
        THEN EngineResult(s1, FALSE, FALSE)
        ELSE
        LET s2 == [s1 EXCEPT !.card_challenge = resp.nonce,
                             !.sequence_counter = resp.nonce]
        IN  IF ~AESKeyOk(s2.static_enc)
            THEN EngineResult(s2, FALSE, TRUE)
            ELSE
            LET s3 == SCP03__calc_session_keys(s2)
                expected == SCP03_card_cryptogram(s3.session_mac, s3.host_challenge,
                                                  s3.card_challenge, s3.mac_len)
            IN  EngineResult(s3, SCP03_cryptogram_ok(expected, resp.crypt), FALSE)

\* the INITIALIZE UPDATE command each engine sends
SCP02_init_update_apdu(host_challenge) == <<128, 80, 0, 0, 8>> \o host_challenge

SCP03_init_update_apdu == <<128, 80, 0, 0, Len(SCP03_host_challenge)>> \o SCP03_host_challenge

\* EXTERNAL AUTHENTICATE as built by each engine: the MAC is chained first
SCP02_ext_auth_hdr(sec_level) == <<132, 130, sec_level, 0, 8 + 8>>

SCP02_host_cryptogram(s) ==
    CryptBody("host", s.session_enc,
              <<s.host_challenge, s.card_challenge, s.sequence_counter>>, 8)

SCP02_ext_auth_wire(s, sec_level) ==
    LET s1 == SCP02__calc_mac(s, SCP02_ext_auth_hdr(sec_level), SCP02_host_cryptogram(s))
    IN  Wrapped(s1, [hdr |-> SCP02_ext_auth_hdr(sec_level),
                     body |-> SCP02_host_cryptogram(s),
                     mac |-> [size |-> SCP02_MAC_LEN, chain |-> s1.last_mac]])

SCP02_external_authenticate(s, sec_level, sw) ==
    LET w == SCP02_ext_auth_wire(s, sec_level)
    IN  IF sw = SW_OK
        THEN EngineResult([w.s EXCEPT !.sec_level = sec_level], TRUE, FALSE)
        ELSE EngineResult(w.s, FALSE, FALSE)

SCP03_ext_auth_hdr(s, sec_level) ==
    <<132, 130, sec_level, 0, s.challenges_len + s.mac_len>>

SCP03_host_cryptogram(s) ==
    CryptBody("host", s.session_mac, <<s.host_challenge, s.card_challenge, 0>>,
              s.challenges_len)

SCP03_ext_auth_wire(s, sec_level) ==
    LET s1 == SCP03__calc_mac(s, SCP03_ext_auth_hdr(s, sec_level), SCP03_host_cryptogram(s))
    IN  Wrapped(s1, [hdr |-> SCP03_ext_auth_hdr(s, sec_level),
                     body |-> SCP03_host_cryptogram(s),
                     mac |-> [size |-> s.mac_len, chain |-> s1.mac_chain]])

SCP03_external_authenticate(s, sec_level, sw) ==
    LET w == SCP03_ext_auth_wire(s, sec_level)
    IN  IF sw = SW_OK
        THEN EngineResult([w.s EXCEPT !.sec_level = sec_level,
                                      !.encryption_counter = 1,
                                      !.is_mutually_authenticated = TRUE], TRUE, FALSE)
        ELSE EngineResult(w.s, FALSE, FALSE)

\* a variant that takes every status for 90 00
external_authenticate_any_status(s, sec_level, sw) ==
    IF s.proto = "SCP02" THEN SCP02_external_authenticate(s, sec_level, SW_OK)
                         ELSE SCP03_external_authenticate(s, sec_level, SW_OK)

external_authenticate(s, sec_level, sw) ==
    IF s.proto = "SCP02" THEN SCP02_external_authenticate(s, sec_level, sw)
                         ELSE SCP03_external_authenticate(s, sec_level, sw)

ext_auth_wire(s, sec_level) ==
    IF s.proto = "SCP02" THEN SCP02_ext_auth_wire(s, sec_level).wire
                         ELSE SCP03_ext_auth_wire(s, sec_level).wire

-----------------------------------------------------------------------------
(* The card: what it announces and the keys it holds                       *)

ISD_AID == <<160, 0, 0, 1, 81>>
PKG_AID == <<160, 0, 0, 0, 98, 1>>
CLASS_AID == <<160, 0, 0, 0, 98, 1, 1>>

\* FCI returned to the empty SELECT: 6F len 84 len AID
FCI_OK == <<111, 7, 132, 5>> \o ISD_AID

NoI == -1    \* the protocol has no OID in Card Recognition Data

KeyEntry(id, version, type, length) ==
    [key_id |-> id, key_version |-> version,
     components |-> <<[type |-> type, length |-> length]>>]

\* crd02 / crd03: the i parameter announced for SCP02 / SCP03 (NoI: none);
\* keys: parsed Key Information; key / aeslen: the ISD keys the card holds
Cards ==
    { [crd02 |-> 21, crd03 |-> NoI, keys |-> <<KeyEntry(1, 32, "DES", 16)>>,
       key |-> "K40", aeslen |-> 16],
      [crd02 |-> 26, crd03 |-> NoI, keys |-> <<KeyEntry(1, 32, "DES", 16)>>,
       key |-> "K40", aeslen |-> 16],
      [crd02 |-> NoI, crd03 |-> 112, keys |-> <<KeyEntry(1, 48, "AES", 16)>>,
       key |-> "K40", aeslen |-> 16],
      [crd02 |-> NoI, crd03 |-> 113, keys |-> <<KeyEntry(1, 48, "AES", 32)>>,
       key |-> "K40", aeslen |-> 32],
      [crd02 |-> 85, crd03 |-> 112,
       keys |-> <<KeyEntry(1, 32, "DES", 16), KeyEntry(1, 48, "AES", 16)>>,
       key |-> "K40", aeslen |-> 16],
      [crd02 |-> NoI, crd03 |-> NoI, keys |-> <<KeyEntry(1, 48, "AES", 16)>>,
       key |-> "K40", aeslen |-> 16] }

HostKeyNames == {"K40", "KBAD"}

SecLevels == 0..3

Nonces == 0..MaxNonce

\* secrets.token_bytes(8)
HostChallenges == { [i \in 1..8 |-> v] : v \in Nonces }

\* the card's answer to INITIALIZE UPDATE, its cryptogram made with its keys
SCP02_card_resp(c, host_challenge, len, nonce, sw) ==
    [len |-> len, nonce |-> nonce, sw |-> sw,
     crypt |-> SCP02_card_cryptogram(
                   SCP02__calc_session_key(StaticKey(c.key, KEY_LENGTH_2K3DES), "ENC", nonce),
                   host_challenge, nonce, nonce)]

SCP03_card_resp(c, host_challenge, len, nonce, sw) ==
    [len |-> len, nonce |-> nonce, sw |-> sw,
     crypt |-> SCP03_card_cryptogram(
                   DerivedKey(StaticKey(c.key, c.aeslen), "MAC",
                              16 * ((c.aeslen + 15) \div 16), <<host_challenge, nonce, 0>>),
                   host_challenge, nonce, IF len >= 45 THEN 16 ELSE 8)]

SCP02_resp_lens == {SCP02_RESP_LEN, 0}

SCP03_resp_lens == {29, 45, 0}

-----------------------------------------------------------------------------
(* Capability detection (GPAgent.determineSCPAndKeyLength)                 *)

\* Python truth of dict.get(proto, None): None and 0 are both false
Truthy(i) == i # NoI /\ i # 0

RECURSIVE ComponentsOfKeyId01(_)
\* the (type, length) components of the keys with key_id 01, in order
ComponentsOfKeyId01(keys) ==
    IF keys = <<>> THEN <<>>
    ELSE (IF Head(keys).key_id = 1 THEN Head(keys).components ELSE <<>>)
         \o ComponentsOfKeyId01(Tail(keys))

FirstOfType(comps, types) ==
    IF \E i \in 1..Len(comps) : comps[i].type \in types
    THEN CHOOSE i \in 1..Len(comps) :
            /\ comps[i].type \in types
            /\ \A j \in 1..(i - 1) : comps[j].type \notin types
    ELSE 0

Decision(proto, i_param, keylength) ==
    [proto |-> proto, i_param |-> i_param, keylength |-> keylength]

Undecided == Decision("PROBE", 0, 0)

determineSCPAndKeyLength(c) ==
    LET comps == ComponentsOfKeyId01(c.keys)
        aes == FirstOfType(comps, {"AES"})
        any == FirstOfType(comps, {"AES", "DES"})
    IN  IF Truthy(c.crd02) /\ ~Truthy(c.crd03)
        THEN Decision("SCP02", c.crd02, KEY_LENGTH_2K3DES)
        ELSE IF Truthy(c.crd03) /\ ~Truthy(c.crd02)
        THEN IF aes # 0 THEN Decision("SCP03", c.crd03, comps[aes].length)
                        ELSE Undecided
        ELSE IF Truthy(c.crd02) /\ Truthy(c.crd03)
        THEN IF any = 0 THEN Undecided
             ELSE IF comps[any].type = "AES"
             THEN Decision("SCP03", c.crd03, comps[any].length)
             ELSE Decision("SCP02", c.crd02, comps[any].length)
        ELSE Undecided

\* key["key_version"] == key_version compares a hex string with an integer
KeyVersionMatches(key, key_version) == FALSE

\* GPAgent.activeSCPInfoDetection once the probe answered 90 00 with a
\* response holding key version kv and protocol byte proto
activeSCPInfoDetection(c, kv, proto) ==
    IF proto = 2 THEN Decision("SCP02", 21, KEY_LENGTH_2K3DES)
    ELSE IF proto = 3
              /\ \E i \in 1..Len(c.keys) :
                    c.keys[i].key_id = 1 /\ KeyVersionMatches(c.keys[i], kv)
    THEN Decision("RAISE", 0, 0)   \* components is a list: .get raises
    ELSE Decision("NONE", 0, 0)

-----------------------------------------------------------------------------
(* Running one agent call: st threads the agent, the engine, the history   *)
(* flag and the exchanges made so far                                      *)

\* one command handed to the reader and the status that came back;
\* auth: was the secure session established when it was handed over;
\* level: the engine's security level when the call reached the engine
Exch(kind, input, wire, sw, auth, level, note) ==
    [kind |-> kind, input |-> input, wire |-> wire, sw |-> sw,
     auth |-> auth, level |-> level, note |-> note]

\* card_connection.send_apdu(command) called directly
PlainSend(st, command, sw) ==
    [st EXCEPT !.log = Append(@, Exch("plain", command, PlainWire(command), sw,
                                      st.g, st.s.sec_level, ""))]

\* what the agent holds once the engine returned w for command: the engine
\* as send_secure_apdu left it and the exchange, if one was made
Sent(st, command, sw, w, g) ==
    [st |-> [st EXCEPT !.s = w.s, !.g = g,
                       !.log = IF w.sends
                               THEN Append(@, Exch("secure", command, w.wire, sw,
                                                   g, st.s.sec_level, ""))
                               ELSE @],
     raised |-> w.raised \/ sw = SW_RAISE]

\* scp_imp.send_secure_apdu(command); a SELECT ends the established session
SecureSend(st, command, sw) ==
    Sent(st, command, sw, send_secure_apdu(st.s, command), st.g /\ ~IsSelect(command))

Outcome(st, ok, raised) == [st |-> st, ok |-> ok, raised |-> raised]

Finish(op, arg, st, result) ==
    /\ agent' = st.a
    /\ scp' = st.s
    /\ ghost' = st.g
    /\ call' = [op |-> op, arg |-> arg, result |-> result, sent |-> st.log]
    /\ UNCHANGED <<card, settings>>

IndexOf(seq, v) ==
    IF \E i \in 1..Len(seq) : seq[i] = v
    THEN CHOOSE i \in 1..Len(seq) : seq[i] = v /\ \A j \in 1..(i - 1) : seq[j] # v
    ELSE 0

SelectApdu(aid_len, aid) == <<0, 164, 4, 0, aid_len>> \o aid

\* GPAgent.select_isd: every way the card can answer it
select_isd(st, sd_aid) ==
    IF sd_aid # <<>>
    THEN { Outcome([PlainSend(st, SelectApdu(Len(sd_aid), sd_aid), sw)
                        EXCEPT !.a.sd_aid = IF sw = SW_OK THEN sd_aid ELSE @],
                   sw = SW_OK, FALSE) : sw \in CardSWs }
    ELSE UNION { LET st1 == PlainSend(st, SelectApdu(0, <<>>), r[1])
                     fci == r[2]
                     idx == IndexOf(fci, 111)
                 IN  IF r[1] # SW_OK THEN {Outcome(st1, FALSE, FALSE)}
                     ELSE IF idx = 0 \/ Len(fci) < idx + 3 THEN {Outcome(st1, FALSE, TRUE)}
                     ELSE LET aid_len == fci[idx + 3]
                              aid == SubSeq(fci, idx + 4, Min(idx + 3 + aid_len, Len(fci)))
                          IN  { Outcome([PlainSend(st1, SelectApdu(aid_len, aid), sw)
                                             EXCEPT !.a.sd_aid = IF sw = SW_OK THEN aid ELSE @],
                                        sw = SW_OK, FALSE) : sw \in CardSWs }
               : r \in CardSWs \X {FCI_OK, <<>>} }

\* the answers a card can give to the probing INITIALIZE UPDATE
ProbeAnswers == { [sw |-> SW_OK, short |-> FALSE, proto |-> 2],
                  [sw |-> SW_OK, short |-> FALSE, proto |-> 3],
                  [sw |-> SW_OK, short |-> TRUE, proto |-> 0],
                  [sw |-> SW_WRONG_LEN, short |-> TRUE, proto |-> 0],
                  [sw |-> SW_COND, short |-> TRUE, proto |-> 0] }

ProbeApdu(n) == <<128, 80, 0, 0, n>> \o Zeros(n)

ProbeDecision(c, r) ==
    IF r.sw # SW_OK THEN Decision("NONE", 0, 0)
    ELSE IF r.short THEN Decision("RAISE", 0, 0)
    ELSE activeSCPInfoDetection(c, c.keys[1].key_version, r.proto)

\* the exchanges of determineSCPAndKeyLength, the decision it returns and the
\* last answer to its probe, if it probed
detect(st, c) ==
    LET st1 == PlainSend(PlainSend(st, <<128, 202, 0, 102, 0>>, SW_OK),
                         <<128, 202, 0, 224, 0>>, SW_OK)
        d == determineSCPAndKeyLength(c)
    IN  IF d # Undecided THEN { [st |-> st1, d |-> d, probe |-> <<>>] }
        ELSE UNION { LET st2 == PlainSend(st1, ProbeApdu(8), r1.sw)
                     IN  IF r1.sw = SW_WRONG_LEN
                         THEN { [st |-> PlainSend(st2, ProbeApdu(16), r2.sw),
                                 d |-> ProbeDecision(c, r2), probe |-> <<r2>>]
                                : r2 \in ProbeAnswers }
                         ELSE { [st |-> st2, d |-> ProbeDecision(c, r1), probe |-> <<r1>>] }
                   : r1 \in ProbeAnswers }

\* mutual_auth lines 221-250: the engine the decision creates, or none
SCP02_supported(i_param) == i_param \in {21, 85}

RepeatKey(name, len, keylength, mac_len) == StaticKey(name, len * (keylength \div mac_len))

make_engine(d, kn) ==
    IF d.proto = "SCP02" /\ SCP02_supported(d.i_param)
    THEN SCP02_init(StaticKey(kn, KEY_40_4F_LEN), StaticKey(kn, KEY_40_4F_LEN),
                    StaticKey(kn, KEY_40_4F_LEN))
    ELSE IF d.proto = "SCP03"
    THEN SCP03_init(RepeatKey(kn, KEY_40_4F_LEN, d.keylength, KEY_40_4F_LEN),
                    RepeatKey(kn, KEY_40_4F_LEN, d.keylength, KEY_40_4F_LEN),
                    RepeatKey(kn, KEY_40_4F_LEN, d.keylength, KEY_40_4F_LEN),
                    d.i_param)
    ELSE NoEngine

\* what INITIALIZE UPDATE found, for the record of the exchange
InitUpdateNote(r, resp) ==
    IF r.s.session_enc = NoKey THEN "unparsed"
    ELSE IF r.s.proto = "SCP02"
         THEN (IF resp.crypt = SCP02_card_cryptogram(r.s.session_enc, r.s.host_challenge,
                                                    r.s.card_challenge, r.s.sequence_counter)
               THEN "match" ELSE "mismatch")
         ELSE (IF resp.crypt = SCP03_card_cryptogram(r.s.session_mac, r.s.host_challenge,
                                                    r.s.card_challenge, r.s.mac_len)
               THEN "match" ELSE "mismatch")

\* the answers <<length, nonce, status>> to INITIALIZE UPDATE: any nonce with
\* any status in a response of a full length, and a response without data
InitUpdateAnswers(lens) ==
    { a \in lens \X Nonces \X CardSWs : a[1] = 0 => (a[2] = 0 /\ a[3] = SW_COND) }

\* scp_imp.initialize_update(): every way the card can answer it
initialize_update(st, c) ==
    IF st.s.proto = "SCP02"
    THEN { LET resp == SCP02_card_resp(c, x[1], x[2][1], x[2][2], x[2][3])
               r == SCP02_initialize_update(st.s, x[1], resp)
           IN  Outcome([st EXCEPT !.s = r.s, !.g = FALSE,
                           !.log = Append(@, Exch("engine", SCP02_init_update_apdu(x[1]),
                                                  PlainWire(SCP02_init_update_apdu(x[1])),
                                                  x[2][3], FALSE, 0, InitUpdateNote(r, resp)))],
                       r.ok, r.raised)
           : x \in HostChallenges \X InitUpdateAnswers(SCP02_resp_lens) }
    ELSE { LET resp == SCP03_card_resp(c, SCP03_host_challenge, x[2][1], x[2][2], x[2][3])
               r == SCP03_initialize_update(st.s, resp)
           IN  Outcome([st EXCEPT !.s = r.s, !.g = FALSE,
                           !.log = Append(@, Exch("engine", SCP03_init_update_apdu,
                                                  PlainWire(SCP03_init_update_apdu),
                                                  x[2][3], FALSE, 0, InitUpdateNote(r, resp)))],
                       r.ok, r.raised)
           : x \in {<<>>} \X InitUpdateAnswers(SCP03_resp_lens) }

\* scp_imp.external_authenticate(sec_level): every way the card can answer it
ext_auth(st, sec_level) ==
    { LET r == external_authenticate(st.s, sec_level, sw)
      IN  Outcome([st EXCEPT !.s = r.s, !.g = (sw = SW_OK),
                      !.log = Append(@, Exch("engine", <<>>, ext_auth_wire(st.s, sec_level),
                                             sw, FALSE, st.s.sec_level, ""))],
                  r.ok, r.raised)
      : sw \in CardSWs }

\* a variant that goes on whatever the engine returned
mutual_auth_always_continues(ok) == TRUE

\* mutual_auth lines 252-256: the call goes on only after a True
mutual_auth_continues(ok) == ok

\* the whole of GPAgent.mutual_auth: the set of [st, result] it can end in
mutual_auth(st0, c, sec_level, kn, sd_aid) ==
    LET sta == [st0 EXCEPT !.a.is_mutually_authenticated = FALSE]
        End(st, res) == {[st |-> st, result |-> res]}
        AfterExt(o) ==
            IF o.raised THEN End(o.st, "raise")
            ELSE IF ~mutual_auth_continues(o.ok) THEN End(o.st, "fail")
            ELSE End([o.st EXCEPT !.a.is_mutually_authenticated = TRUE], "ok")
        AfterInit(o) ==
            IF o.raised THEN End(o.st, "raise")
            ELSE IF ~mutual_auth_continues(o.ok) THEN End(o.st, "fail")
            ELSE UNION { AfterExt(e) : e \in ext_auth(o.st, sec_level) }
        AfterDetect(x) ==
            IF x.d.proto = "RAISE" THEN End(x.st, "raise")
            ELSE IF make_engine(x.d, kn) = NoEngine THEN End(x.st, "fail")
            ELSE LET st1 == [x.st EXCEPT !.s = make_engine(x.d, kn), !.g = FALSE,
                                         !.a.has_scp = TRUE]
                 IN  UNION { AfterInit(o) : o \in initialize_update(st1, c) }
        AfterSelect(o) ==
            IF o.raised THEN End(o.st, "raise")
            ELSE IF ~o.ok THEN End(o.st, "fail")
            ELSE UNION { AfterDetect(x) : x \in detect(o.st, c) }
    IN  UNION { AfterSelect(o) : o \in select_isd(sta, sd_aid) }

-----------------------------------------------------------------------------
(* Load File Data Block and its chunks                                     *)

RECURSIVE NeededBytes(_)
\* (length.bit_length() + 7) // 8
NeededBytes(n) == IF n < 256 THEN 1 ELSE 1 + NeededBytes(n \div 256)

RECURSIVE Pow256(_)
Pow256(k) == IF k = 0 THEN 1 ELSE 256 * Pow256(k - 1)

\* length.to_bytes(k, byteorder="big")
ToBytesBE(n, k) == [i \in 1..k |-> (n \div Pow256(k - i)) % 256]

_get_encoded_length(length) ==
    IF length <= 127 THEN <<length>>
    ELSE <<128 + NeededBytes(length)>> \o ToBytesBE(length, NeededBytes(length))

\* the payload: the i-th byte of the ordered components is the opaque byte -i
Payload(n) == [i \in 1..n |-> 0 - i]

load_file_data_block(load_file_data) ==
    <<196>> \o _get_encoded_length(Len(load_file_data)) \o load_file_data

\* a variant that starts the default chunks at the head of the block
DefaultChunksFromHead(block, from) ==
    [j \in 1..((Len(block) + DEFAULT_CHUNCK_SIZE - 1) \div DEFAULT_CHUNCK_SIZE) |->
        SubSeq(block, (j - 1) * DEFAULT_CHUNCK_SIZE + 1,
               Min(j * DEFAULT_CHUNCK_SIZE, Len(block)))]

\* block[i : i + DEFAULT_CHUNCK_SIZE] for i in range(from, len(block), size)
DefaultChunks(block, from) ==
    LET cnt == (Len(block) - from + DEFAULT_CHUNCK_SIZE - 1) \div DEFAULT_CHUNCK_SIZE
    IN  [j \in 1..cnt |->
            SubSeq(block, from + (j - 1) * DEFAULT_CHUNCK_SIZE + 1,
                   Min(from + j * DEFAULT_CHUNCK_SIZE, Len(block)))]

RECURSIVE SumOf(_, _, _)
\* sizes[lo] + ... + sizes[hi], by halves
SumOf(sizes, lo, hi) ==
    IF lo > hi THEN 0
    ELSE IF lo = hi THEN sizes[lo]
    ELSE SumOf(sizes, lo, (lo + hi) \div 2) + SumOf(sizes, (lo + hi) \div 2 + 1, hi)

\* the while loop of _get_load_chunks takes one chunk per hint until a hint is
\* larger than what remains: with sizes >= 0 it takes the hints whose sum with
\* those before them fits in the block
HintedCount(block, chunk_sizes) ==
    Cardinality({ j \in 1..Len(chunk_sizes) : SumOf(chunk_sizes, 1, j) <= Len(block) })

HintedChunks(block, chunk_sizes) ==
    [j \in 1..HintedCount(block, chunk_sizes) |->
        SubSeq(block, SumOf(chunk_sizes, 1, j - 1) + 1, SumOf(chunk_sizes, 1, j))]

\* len(block) - remaining_bytes after the while loop
TotalLen(block, chunk_sizes) == SumOf(chunk_sizes, 1, HintedCount(block, chunk_sizes))

\* a variant that sends the hinted chunks only
OrientedChunksHintsOnly(block, chunk_sizes, taken) == HintedChunks(block, chunk_sizes)

\* the chunks of an oriented block: the hinted ones, then the default ones
OrientedChunks(block, chunk_sizes, taken) ==
    IF Len(block) - taken # 0
    THEN HintedChunks(block, chunk_sizes) \o DefaultChunks(block, taken)
    ELSE HintedChunks(block, chunk_sizes)

\* [chunk[::-1] for chunk in chunks[::-1]]
ReverseChunks(chunks) == [j \in 1..Len(chunks) |-> Reverse(chunks[Len(chunks) + 1 - j])]

\* a variant that applies the hints to the head whatever the caller asks
_get_load_chunks_from_head(block, chunk_sizes, apply_sizes_to_head) ==
    IF chunk_sizes = <<>> THEN DefaultChunks(block, 0)
    ELSE OrientedChunks(block, chunk_sizes, TotalLen(block, chunk_sizes))

_get_load_chunks(block, chunk_sizes, apply_sizes_to_head) ==
    IF chunk_sizes = <<>> THEN DefaultChunks(block, 0)
    ELSE IF apply_sizes_to_head
    THEN OrientedChunks(block, chunk_sizes, TotalLen(block, chunk_sizes))
    ELSE ReverseChunks(OrientedChunks(Reverse(block), Reverse(chunk_sizes),
                                      TotalLen(Reverse(block), Reverse(chunk_sizes))))

\* the LOAD command of chunk number chunk_id (from 0) out of count
load_apdu(chunk_id, count, chunk) ==
    <<128, 232, IF chunk_id = count - 1 THEN 128 ELSE 0, chunk_id, Len(chunk)>> \o chunk

install_for_load_apdu(cap_aid, sd_aid, load_params) ==
    <<128, 230, 2, 0,
      1 + Len(cap_aid) + 1 + Len(sd_aid) + 1 + 0 + 1 + Len(load_params) + 1 + 0>>
    \o <<Len(cap_aid)>> \o cap_aid \o <<Len(sd_aid)>> \o sd_aid \o <<0>>
    \o <<Len(load_params)>> \o load_params \o <<0>>

\* a variant whose Lc leaves the length byte of the token out
install_apdu_short_lc(cap_aid, class_aid, instance_aid, priviledges, install_params) ==
    <<128, 230, 12, 0,
      1 + Len(cap_aid) + 1 + Len(class_aid) + 1 + Len(instance_aid)
        + 1 + Len(priviledges) + 1 + Len(install_params)>>
    \o <<Len(cap_aid)>> \o cap_aid \o <<Len(class_aid)>> \o class_aid
    \o <<Len(instance_aid)>> \o instance_aid \o <<Len(priviledges)>> \o priviledges
    \o <<Len(install_params)>> \o install_params \o <<0>>

install_apdu(cap_aid, class_aid, instance_aid, priviledges, install_params) ==
    <<128, 230, 12, 0,
      1 + Len(cap_aid) + 1 + Len(class_aid) + 1 + Len(instance_aid)
        + 1 + Len(priviledges) + 1 + Len(install_params) + 1 + 0>>
    \o <<Len(cap_aid)>> \o cap_aid \o <<Len(class_aid)>> \o class_aid
    \o <<Len(instance_aid)>> \o instance_aid \o <<Len(priviledges)>> \o priviledges
    \o <<Len(install_params)>> \o install_params \o <<0>>

delete_apdu(aid) == <<128, 228, 0, 128, Len(aid) + 2>> \o <<79, Len(aid)>> \o aid

get_status_apdu(p1, p2) == <<128, 242, p1, p2, 2, 79, 0>>

-----------------------------------------------------------------------------
(* Content management (GPAgent.load_cap, install_applet, delete_content,   *)
(* list_content) and GPAgent.send_apdu                                     *)

\* the guard at the head of every content-management method
requires_mutual_auth(a) == ~a.is_mutually_authenticated

\* a variant that goes on after any status
load_never_aborts(sw) == FALSE

\* load_cap line 447 / 474: a status other than 90 00 ends the load
load_aborts(sw) == sw # SW_OK

\* the status the card gives to exchange number k of a load (0: INSTALL):
\* failAt = [at, sw] makes exchange number at end with sw, the others with 90 00
LoadSw(k, failAt) == IF k = failAt.at THEN failAt.sw ELSE SW_OK

\* what a command of load_cap leads to: an exception, a failure, or going on
load_step(r, sw) ==
    [st |-> r.st,
     result |-> IF r.raised THEN "raise" ELSE IF load_aborts(sw) THEN "fail" ELSE "ok"]

RECURSIVE load_loop(_, _, _, _, _)
\* the second half of the chunks is sent if the first half went through
load_rest(first, chunks, mid, hi, failAt) ==
    IF first.result # "ok" THEN first ELSE load_loop(first.st, chunks, mid, hi, failAt)

\* for chunk_id, chunk in enumerate(chunks): send, stop on a bad status;
\* here for the chunks numbered lo .. hi - 1, taken by halves
load_loop(st, chunks, lo, hi, failAt) ==
    IF lo >= hi THEN [st |-> st, result |-> "ok"]
    ELSE IF hi = lo + 1
    THEN load_step(SecureSend(st, load_apdu(lo, Len(chunks), chunks[lo + 1]),
                              LoadSw(lo + 1, failAt)),
                   LoadSw(lo + 1, failAt))
    ELSE load_rest(load_loop(st, chunks, lo, (lo + hi) \div 2, failAt),
                   chunks, (lo + hi) \div 2, hi, failAt)

\* load_cap once INSTALL [for load] was answered
load_chunks(first, chunks, failAt) ==
    IF first.result # "ok" THEN first
    ELSE load_loop(first.st, chunks, 0, Len(chunks), failAt)

load_cap(st, exists, cap_aid, sd_aid, load_params, load_file_data, chunk_sizes, apply_sizes_to_head, failAt) ==
    IF ~exists THEN [st |-> st, result |-> "fail"]
    ELSE IF requires_mutual_auth(st.a) THEN [st |-> st, result |-> "fail"]
    ELSE load_chunks(load_step(SecureSend(st, install_for_load_apdu(cap_aid, sd_aid, load_params),
                                          LoadSw(0, failAt)),
                               LoadSw(0, failAt)),
                     _get_load_chunks(load_file_data_block(load_file_data),
                                      chunk_sizes, apply_sizes_to_head),
                     failAt)

\* the result of a method that sends one command and tests its status
one_command(r, sw) ==
    [st |-> r.st,
     result |-> IF r.raised THEN "raise" ELSE IF sw # SW_OK THEN "fail" ELSE "ok"]

install_applet(st, cap_aid, class_aid, instance_aid, priviledges, install_params, sw) ==
    IF requires_mutual_auth(st.a) THEN [st |-> st, result |-> "fail"]
    ELSE one_command(SecureSend(st, install_apdu(cap_aid, class_aid, instance_aid,
                                                 priviledges, install_params), sw), sw)

delete_content(st, aid, sw) ==
    IF requires_mutual_auth(st.a) THEN [st |-> st, result |-> "fail"]
    ELSE one_command(SecureSend(st, delete_apdu(aid), sw), sw)

\* send_apdu returns what the engine returns, or its exception
passed_through(r) == [st |-> r.st, result |-> IF r.raised THEN "raise" ELSE "ok"]

\* GPAgent.send_apdu
send_apdu(st, apdu, sw) ==
    IF st.a.is_mutually_authenticated /\ st.a.has_scp
    THEN passed_through(SecureSend(st, apdu, sw))
    ELSE [st |-> PlainSend(st, apdu, sw),
          result |-> IF sw = SW_RAISE THEN "raise" ELSE "ok"]

\* P2 of GET STATUS: 0x00 | data_struct, 0x01 | data_struct
get_status_p2(deprecated_data_structure, next) ==
    (IF next THEN 1 ELSE 0) + (IF deprecated_data_structure THEN 0 ELSE 2)

\* while (sw1, sw2) == (0x63, 0x10)
more_data(sw) == sw = SW_MORE

RECURSIVE list_phase(_, _, _, _, _)
\* after the k-th GET STATUS of one P1: one more while the status is 63 10
list_more(r, p1, deprecated, sws, k) ==
    IF r.raised THEN r
    ELSE IF more_data(sws[k]) /\ k < Len(sws)
    THEN list_phase(r.st, p1, deprecated, sws, k + 1)
    ELSE r

\* GET STATUS for one P1: the first command, then one more per 63 10;
\* sws[k] is the status of the k-th command
list_phase(st, p1, deprecated, sws, k) ==
    list_more(SecureSend(st, get_status_apdu(p1, get_status_p2(deprecated, k > 1)), sws[k]),
              p1, deprecated, sws, k)

\* a GET STATUS answer carries data unless it is an error status
NoData(sws) == \A k \in 1..Len(sws) : sws[k] \notin {SW_OK, SW_MORE}

\* get_parsed_gp_registry_info reads applications_info[0] and packages_info[0]
list_parse(r, isd, apps, pkgs) ==
    [st |-> r.st,
     result |-> IF r.raised \/ (NoData(isd) /\ NoData(apps)) \/ NoData(pkgs)
                THEN "raise" ELSE "ok"]

list_packages(r, deprecated, isd, apps, pkgs) ==
    IF r.raised THEN [st |-> r.st, result |-> "raise"]
    ELSE list_parse(list_phase(r.st, 16, deprecated, pkgs, 1), isd, apps, pkgs)

list_applications(r, deprecated, isd, apps, pkgs) ==
    IF r.raised THEN [st |-> r.st, result |-> "raise"]
    ELSE list_packages(list_phase(r.st, 64, deprecated, apps, 1), deprecated, isd, apps, pkgs)

\* isd, apps, pkgs: the statuses of the GET STATUS commands for the ISD, for
\* the applications and for the packages
list_content(st, deprecated, isd, apps, pkgs) ==
    IF requires_mutual_auth(st.a) THEN [st |-> st, result |-> "fail"]
    ELSE list_applications(list_phase(st, 128, deprecated, isd, 1),
                           deprecated, isd, apps, pkgs)

\* the data of the k-th answer to GET STATUS for p1, as an opaque item: an
\* answer carries data with 90 00 and 63 10
get_status_data(p1, k, sw) == IF sw \in {SW_OK, SW_MORE} THEN <<<<p1, k>>>> ELSE <<>>

RECURSIVE status_info(_, _, _)
\* the data gathered for p1: that of the first answer, += that of each next
status_info(p1, sws, k) ==
    get_status_data(p1, k, sws[k])
    \o (IF more_data(sws[k]) /\ k < Len(sws) THEN status_info(p1, sws, k + 1) ELSE <<>>)

\* a variant that hands the decoder the application data first
registry_input_apps_first(isd, apps, pkgs) ==
    <<status_info(64, apps, 1) \o status_info(128, isd, 1), status_info(16, pkgs, 1)>>

\* the arguments of get_parsed_gp_registry_info
registry_input(isd, apps, pkgs) ==
    <<status_info(128, isd, 1) \o status_info(64, apps, 1), status_info(16, pkgs, 1)>>

-----------------------------------------------------------------------------
(* The session model: an agent on one card, called in any order            *)

ReaderSWs == CardSWs \cup {SW_RAISE}

\* the statuses of the GET STATUS commands for one P1
PhaseSWs ==
    { [k \in 1..(m + 1) |-> IF k <= m THEN SW_MORE ELSE f] :
        m \in 0..MaxMore, f \in CardSWs }

\* the statuses of the three kinds of GET STATUS: at most one kind departs
\* from a single 90 00, or every kind is refused
ListAnswers ==
    { x \in PhaseSWs \X PhaseSWs \X PhaseSWs :
        \/ Cardinality({k \in 1..3 : x[k] # <<SW_OK>>}) <= 1
        \/ \A k \in 1..3 : x[k] = <<SW_COND>> }

UserApdus ==
    { SelectApdu(5, ISD_AID),
      <<0, 164, 4, 0>>,
      <<128, 202, 0, 102, 0>>,
      <<128, 226, 144, 0, 6, 1, 2, 3, 4, 5, 6>> }

NoFail == [at |-> -1, sw |-> SW_OK]

LoadFails(maxAt, sws) == {NoFail} \cup { [at |-> k, sw |-> sw] : k \in 0..maxAt, sw \in sws }

\* what the command line and the settings file give every mutual_auth
Settings ==
    [sec_level : SecLevels, key : HostKeyNames, sd_aid : {<<>>, ISD_AID}]

Start == [a |-> agent, s |-> scp, g |-> ghost, log |-> <<>>]

\* the model stops issuing commands on a session that has chained MaxChain
\* MACs or counted MaxCounter commands
Fresh ==
    /\ Len(scp.last_mac) < MaxChain
    /\ Len(scp.mac_chain) < MaxChain
    /\ scp.encryption_counter < MaxCounter

Init ==
    /\ agent = [is_mutually_authenticated |-> FALSE, has_scp |-> FALSE, sd_aid |-> <<>>]
    /\ scp = NoEngine
    /\ card \in Cards
    /\ settings \in Settings
    /\ call = [op |-> "init", arg |-> <<>>, result |-> "none", sent |-> <<>>]
    /\ ghost = FALSE

MutualAuth ==
    \E o \in mutual_auth(Start, card, settings.sec_level, settings.key, settings.sd_aid) :
        Finish("mutual_auth", settings, o.st, o.result)

SendApdu ==
    /\ Fresh
    /\ \E apdu \in UserApdus, sw \in CardSWs :
          LET o == send_apdu(Start, apdu, sw)
          IN  Finish("send_apdu", [apdu |-> apdu], o.st, o.result)

LoadCap ==
    /\ Fresh
    /\ \E exists \in BOOLEAN, n \in 0..MaxPayload, chunk_sizes \in {<<>>, <<1>>},
          failAt \in LoadFails(MaxFail, {SW_COND}) :
          /\ ~exists => (n = 0 /\ chunk_sizes = <<>> /\ failAt = NoFail)
          /\ LET o == load_cap(Start, exists, PKG_AID, <<>>, <<>>, Payload(n),
                               chunk_sizes, TRUE, failAt)
             IN  Finish("load_cap",
                        [exists |-> exists, n |-> n, chunk_sizes |-> chunk_sizes,
                         head |-> TRUE, failAt |-> failAt],
                        o.st, o.result)

InstallApplet ==
    /\ Fresh
    /\ \E sw \in CardSWs :
          LET o == install_applet(Start, PKG_AID, CLASS_AID, CLASS_AID, <<0>>, <<>>, sw)
          IN  Finish("install_applet", <<>>, o.st, o.result)

DeleteContent ==
    /\ Fresh
    /\ \E sw \in ReaderSWs :
          LET o == delete_content(Start, PKG_AID, sw)
          IN  Finish("delete_content", [aid |-> PKG_AID], o.st, o.result)

ListContent ==
    /\ Fresh
    /\ \E deprecated \in BOOLEAN, x \in ListAnswers :
          LET o == list_content(Start, deprecated, x[1], x[2], x[3])
          IN  Finish("list_content", [deprecated |-> deprecated], o.st, o.result)

Next ==
    \/ MutualAuth
    \/ SendApdu
    \/ LoadCap
    \/ InstallApplet
    \/ DeleteContent
    \/ ListContent

Spec == Init /\ [][Next]_vars

-----------------------------------------------------------------------------
(* The load model: one load_cap on a session just authenticated (SCP02,    *)
(* no security level), with payloads up to MaxLen bytes and chunk hints    *)

HintSizes == {1, 5, 7, 100, 256}

RECURSIVE SeqsUpTo(_, _)
SeqsUpTo(S, n) ==
    IF n = 0 THEN {<<>>}
    ELSE SeqsUpTo(S, n - 1)
         \cup { Append(q, x) : q \in { r \in SeqsUpTo(S, n - 1) : Len(r) = n - 1 }, x \in S }

\* hint lists of up to MaxHints sizes
HintLists == SeqsUpTo(HintSizes, MaxHints) \ {<<>>}

\* one hint of 1 for every byte of the largest block
ByteHints == [i \in 1..(MaxLen + 4) |-> 1]

\* payload lengths: the small ones, those around the limits of the length
\* encoding (127, 255) and of the default chunks (100, 200), every seventh,
\* and the largest
LoadLens ==
    { n \in 0..MaxLen :
        \/ n < 10
        \/ n % 7 = 0
        \/ n \in 96..100
        \/ n \in 125..130
        \/ n \in 195..199
        \/ n >= 250 }

\* the exchange that carries chunk number 256
WrapAt == 256 + 1

LoadCard == CHOOSE c \in Cards : c.crd02 = 21 /\ c.crd03 = NoI

LoadSettings == [sec_level |-> SCP_SECLEVEL_NO_SECURITY_LEVEL, key |-> "K40", sd_aid |-> ISD_AID]

\* the states mutual_auth returns True in, from a new agent
Authenticated ==
    { o \in mutual_auth([a |-> [is_mutually_authenticated |-> FALSE, has_scp |-> FALSE,
                                sd_aid |-> <<>>],
                         s |-> NoEngine, g |-> FALSE, log |-> <<>>],
                        LoadCard, LoadSettings.sec_level, LoadSettings.key,
                        LoadSettings.sd_aid) : o.result = "ok" }

InitLoad ==
    /\ card = LoadCard
    /\ settings = LoadSettings
    /\ \E o \in Authenticated :
          /\ o.st.s.host_challenge = Zeros(8) /\ o.st.s.card_challenge = 0
          /\ agent = o.st.a
          /\ scp = o.st.s
          /\ ghost = o.st.g
          /\ call = [op |-> "mutual_auth", arg |-> settings, result |-> o.result,
                     sent |-> o.st.log]

LoadWith(n, chunk_sizes, head, failAt) ==
    LET o == load_cap(Start, TRUE, PKG_AID, <<>>, <<>>, Payload(n), chunk_sizes, head, failAt)
    IN  Finish("load_cap",
               [exists |-> TRUE, n |-> n, chunk_sizes |-> chunk_sizes,
                head |-> head, failAt |-> failAt],
               o.st, o.result)

WideFails == LoadFails(MaxFail, {SW_COND}) \cup {[at |-> 1, sw |-> SW_RAISE]}

\* load_cap without chunk hints
LoadDefault ==
    /\ call.op = "mutual_auth"
    /\ \E n \in LoadLens, failAt \in WideFails : LoadWith(n, <<>>, TRUE, failAt)

\* load_cap with chunk hints for the head or for the tail
LoadHinted ==
    /\ call.op = "mutual_auth"
    /\ \E n \in LoadLens, chunk_sizes \in HintLists, head \in BOOLEAN, failAt \in WideFails :
          LoadWith(n, chunk_sizes, head, failAt)

\* load_cap with a chunk hint of one byte for every byte of the block: the
\* reader may refuse the command that carries chunk number 256
LoadBytewise ==
    /\ call.op = "mutual_auth"
    /\ \E n \in {m \in LoadLens : m < 2 \/ m >= 250}, head \in BOOLEAN,
          failAt \in {NoFail, [at |-> WrapAt, sw |-> SW_COND], [at |-> WrapAt, sw |-> SW_RAISE]} :
          LoadWith(n, ByteHints, head, failAt)

NextLoad ==
    \/ LoadDefault
    \/ LoadHinted
    \/ LoadBytewise

SpecLoad == InitLoad /\ [][NextLoad]_vars

-----------------------------------------------------------------------------
(* The order of the CAP components (GPAgent._get_reordered_components).    *)
(* A name is a sequence of atoms: "method.cap" is <<"method", ".cap">> and  *)
(* a file "methodx.cap" is <<"method", "x", ".cap">>; an atom that starts  *)
(* with a dot is an extension.  The bytes of a component are identified    *)
(* with the name of its file.                                              *)

Names(atoms) == [i \in 1..Len(atoms) |-> <<atoms[i]>>]

\* the order of the Java Card specification: applet before import
JC_COMPONENT_ORDER ==
    Names(<<"header", "directory", "applet", "import", "class", "method",
            "staticfield", "export", "constantpool", "reflocation",
            "staticresources", "descriptor">>)

NORMAL_INSTALL_ORDER ==
    Names(<<"header", "directory", "import", "applet", "class", "method",
            "staticfield", "export", "constantpool", "reflocation",
            "staticresources", "descriptor">>)

\* components.get(...) found nothing
None == <<>>

Range(seq) == { seq[i] : i \in 1..Len(seq) }

\* name.startswith(prefix)
startswith(name, prefix) ==
    Len(prefix) <= Len(name) /\ SubSeq(name, 1, Len(prefix)) = prefix

Extensions == {".cap", ".capx", ".CAP", ".CAPX"}

\* os.path.splitext(item)[0]
splitext_root(item) ==
    IF item # <<>> /\ item[Len(item)] \in Extensions
    THEN SubSeq(item, 1, Len(item) - 1)
    ELSE item

lower_atom(a) ==
    CASE a = "Header" -> "header"
      [] a = "METHOD" -> "method"
      [] a = ".CAP" -> ".cap"
      [] a = ".CAPX" -> ".capx"
      [] OTHER -> a

\* str.lower()
lower(item) == [i \in 1..Len(item) |-> lower_atom(item[i])]

\* requested_order: os.path.splitext(item)[0].lower() for every item
requested_order(components_order) ==
    [i \in 1..Len(components_order) |-> lower(splitext_root(components_order[i]))]

RECURSIVE fromkeys(_)
\* list(dict.fromkeys(seq)): the first occurrence of every item, in order
fromkeys(seq) ==
    IF seq = <<>> THEN <<>>
    ELSE IF seq[Len(seq)] \in Range(SubSeq(seq, 1, Len(seq) - 1))
    THEN fromkeys(SubSeq(seq, 1, Len(seq) - 1))
    ELSE Append(fromkeys(SubSeq(seq, 1, Len(seq) - 1)), seq[Len(seq)])

ordering_reference(components_order, apply_order_to_head) ==
    IF components_order = <<>> THEN NORMAL_INSTALL_ORDER
    ELSE IF apply_order_to_head
    THEN fromkeys(requested_order(components_order) \o NORMAL_INSTALL_ORDER)
    ELSE Reverse(fromkeys(Reverse(requested_order(components_order))
                          \o Reverse(NORMAL_INSTALL_ORDER)))

IsDebug(name) == name \in {<<"debug", ".cap">>, <<"debug", ".capx">>}

\* components.pop("debug.cap", None); components.pop("debug.capx", None)
without_debug(components) == SelectSeq(components, LAMBDA name : ~IsDebug(name))

\* components.get(f"{name}.cap", components.get(f"{name}.capx"))
get_component(components, component_name) ==
    IF component_name \o <<".cap">> \in Range(components)
    THEN component_name \o <<".cap">>
    ELSE IF component_name \o <<".capx">> \in Range(components)
    THEN component_name \o <<".capx">>
    ELSE None

\* the components found through the names of the ordering reference
referenced(components, reference) ==
    [i \in 1..Len(reference) |-> get_component(components, reference[i])]

\* the names of the reference that some file name starts with
matched_names(components, reference) ==
    SelectSeq(reference,
              LAMBDA component_name :
                  \E name \in Range(components) : startswith(name, component_name))

\* the files whose name starts with no name of the reference
unmatched(components, reference) ==
    SelectSeq(components,
              LAMBDA name : \A r \in Range(reference) : ~startswith(name, r))

reordered(components, reference) ==
    referenced(components, matched_names(components, reference))
    \o unmatched(components, reference)

_get_reordered_components(components, components_order, apply_order_to_head) ==
    reordered(without_debug(components),
              ordering_reference(components_order, apply_order_to_head))

\* b"".join(components) raises on an item that is None
join_raises(components) == None \in Range(components)

-----------------------------------------------------------------------------
(* The order model: one call of _get_reordered_components on the files of  *)
(* an archive, in the order of the archive                                 *)

\* the members of the largest archive, in the order of its directory
FullArchive ==
    << <<"descriptor", ".cap">>, <<"zeta", ".cap">>, <<"method", ".cap">>,
       <<"debug", ".cap">>, <<"header", ".capx">>, <<"class", ".cap">>,
       <<"header", ".cap">>, <<"staticresources", ".capx">>,
       <<"method", "x", ".cap">>, <<"import", ".cap">>, <<"export", ".capx">>,
       <<"applet", ".cap">>, <<"directory", ".cap">>, <<"constantpool", ".cap">>,
       <<"reflocation", ".cap">>, <<"staticfield", ".cap">>,
       <<"debug", ".capx">>, <<"alpha", ".cap">> >>

\* the members an archive of the model may lack
Removable ==
    { <<"header", ".cap">>, <<"header", ".capx">>, <<"import", ".cap">>,
      <<"applet", ".cap">>, <<"method", ".cap">>, <<"method", "x", ".cap">>,
      <<"zeta", ".cap">>, <<"debug", ".cap">> }

Archives ==
    { SelectSeq(FullArchive, LAMBDA name : name \notin gone) : gone \in SUBSET Removable }

\* the items a caller may put in components_order
OrderItems ==
    { <<"METHOD">>, <<"import", ".cap">>, <<"Header", ".CAPX">>, <<"zeta">> }

OrderLists == SeqsUpTo(OrderItems, MaxOrderHints) \ {<<>>}

InitOrder ==
    /\ agent = [is_mutually_authenticated |-> FALSE, has_scp |-> FALSE, sd_aid |-> <<>>]
    /\ scp = NoEngine
    /\ card = LoadCard
    /\ settings = LoadSettings
    /\ call = [op |-> "init", arg |-> <<>>, result |-> "none", sent |-> <<>>]
    /\ ghost = FALSE

OrderWith(components, components_order, head) ==
    /\ call' = [op |-> "_get_reordered_components",
                arg |-> [components |-> components,
                         components_order |-> components_order, head |-> head],
                result |-> _get_reordered_components(components, components_order, head),
                sent |-> <<>>]
    /\ UNCHANGED <<agent, scp, card, settings, ghost>>

\* components_order is empty
OrderDefault ==
    /\ call.op = "init"
    /\ \E components \in Archives, head \in BOOLEAN : OrderWith(components, <<>>, head)

\* components_order names components for the head or for the tail
OrderHinted ==
    /\ call.op = "init"
    /\ \E components \in Archives, components_order \in OrderLists, head \in BOOLEAN :
          OrderWith(components, components_order, head)

NextOrder ==
    \/ OrderDefault
    \/ OrderHinted

SpecOrder == InitOrder /\ [][NextOrder]_vars

-----------------------------------------------------------------------------
(* The reader model: one call of CardReader.send_apdu, one transmission at *)
(* a time.  The card answers every transmission as it likes; it asks for   *)
(* GET RESPONSE (61 xx) at most MaxGetResponse times in a call.            *)

\* the commands given to the reader: without data or Le, with Le only, with
\* data only (a wrapped command ends with its MAC), with data and Le
ReaderCommands ==
    { <<0, 164, 4, 0>>,
      <<128, 202, 0, 102, 0>>,
      <<132, 228, 0, 128, 10, 79, 0, 1, 2, 3, 4, 5, 6, 7, 8>>,
      <<0, 164, 4, 0, 2, 160, 0, 0>> }

ReaderStatuses == {SW_OK, SW_COND, <<97, 5>>, <<97, 16>>, <<108, 9>>}

ReaderData == {<<>>, <<17>>, <<34, 51>>}

\* what self.connection.transmit may give after the exchanges made so far
TransmitAnswers(sent) ==
    { [data |-> d, sw |-> s] : d \in ReaderData, s \in
        { x \in ReaderStatuses :
            x[1] = 97 =>
              Cardinality({ i \in 1..Len(sent) : sent[i].sw[1] = 97 }) < MaxGetResponse } }
    \cup { [data |-> <<>>, sw |-> SW_RAISE] }

\* command[:-1] + [sw2]
corrected_command(command, sw2) == SubSeq(command, 1, Len(command) - 1) \o <<sw2>>

\* a variant that asks for as many bytes as the card can give
get_response_le0(sw2) == <<0, 192, 0, 0, 0>>

\* [0x00, 0xC0, 0x00, 0x00, sw2]
get_response(sw2) == <<0, 192, 0, 0, sw2>>

\* self.connection.transmit(command) answered with ans, at position pc of
\* send_apdu; an exception of transmit leaves send_apdu
transmit(command, ans, resp_data, pc) ==
    call' = [call EXCEPT
               !.sent = Append(@, [command |-> command, data |-> ans.data, sw |-> ans.sw]),
               !.resp_data = IF ans.sw = SW_RAISE THEN @ ELSE resp_data,
               !.sw = ans.sw,
               !.pc = IF ans.sw = SW_RAISE THEN "raised" ELSE pc]

InitReader ==
    /\ agent = [is_mutually_authenticated |-> FALSE, has_scp |-> FALSE, sd_aid |-> <<>>]
    /\ scp = NoEngine
    /\ card = LoadCard
    /\ settings = LoadSettings
    /\ ghost = FALSE
    /\ \E command \in ReaderCommands, auto_get_response \in BOOLEAN, auto_correct_le \in BOOLEAN :
          call = [op |-> "CardReader.send_apdu",
                  arg |-> [command |-> command, auto_get_response |-> auto_get_response,
                           auto_correct_le |-> auto_correct_le],
                  pc |-> "transmit", resp_data |-> <<>>, sw |-> SW_OK,
                  sent |-> <<>>, result |-> [resp_data |-> <<>>, sw |-> <<>>]]

\* resp_data, sw1, sw2 = self.connection.transmit(command)
ReaderTransmit ==
    /\ call.pc = "transmit"
    /\ \E ans \in TransmitAnswers(call.sent) :
          transmit(call.arg.command, ans, ans.data,
                   IF ans.sw[1] = 108 /\ call.arg.auto_correct_le THEN "correct" ELSE "loop")
    /\ UNCHANGED <<agent, scp, card, settings, ghost>>

\* if sw1 == 0x6C and auto_correct_le: transmit the corrected command
ReaderCorrectLe ==
    /\ call.pc = "correct"
    /\ \E ans \in TransmitAnswers(call.sent) :
          transmit(corrected_command(call.arg.command, call.sw[2]), ans, ans.data, "loop")
    /\ UNCHANGED <<agent, scp, card, settings, ghost>>

\* while auto_get_response and sw1 == 0x61: one GET RESPONSE
ReaderGetResponse ==
    /\ call.pc = "loop"
    /\ call.arg.auto_get_response /\ call.sw[1] = 97
    /\ \E ans \in TransmitAnswers(call.sent) :
          transmit(get_response(call.sw[2]), ans, call.resp_data \o ans.data, "loop")
    /\ UNCHANGED <<agent, scp, card, settings, ghost>>

\* return resp_data, sw1, sw2
ReaderReturn ==
    /\ call.pc = "loop"
    /\ ~(call.arg.auto_get_response /\ call.sw[1] = 97)
    /\ call' = [call EXCEPT !.pc = "returned",
                            !.result = [resp_data |-> call.resp_data, sw |-> call.sw]]
    /\ UNCHANGED <<agent, scp, card, settings, ghost>>

NextReader ==
    \/ ReaderTransmit
    \/ ReaderCorrectLe
    \/ ReaderGetResponse
    \/ ReaderReturn

\* send_apdu runs on: each of its steps is taken once it can be
SpecReader == InitReader /\ [][NextReader]_vars /\ WF_vars(NextReader)

-----------------------------------------------------------------------------
(* The counter model: commands on an SCP03 session just authenticated.     *)
(* call.wrapped counts the commands handed to the reader by the engine     *)
(* since EXTERNAL AUTHENTICATE, call.delivered those the reader did not    *)
(* fail on, and call.arg.counter is the counter the command met.           *)

CounterCard == CHOOSE c \in Cards : c.crd02 = NoI /\ c.crd03 = 112

\* no data, data, a SELECT
CounterApdus ==
    { <<128, 202, 0, 102, 0>>, <<128, 226, 144, 0, 6, 1, 2, 3, 4, 5, 6>>,
      SelectApdu(5, ISD_AID) }

InitCounter ==
    /\ card = CounterCard
    /\ settings \in { x \in Settings : x.key = "K40" /\ x.sd_aid = ISD_AID }
    /\ \E o \in mutual_auth([a |-> [is_mutually_authenticated |-> FALSE, has_scp |-> FALSE,
                                    sd_aid |-> <<>>],
                             s |-> NoEngine, g |-> FALSE, log |-> <<>>],
                            card, settings.sec_level, settings.key, settings.sd_aid) :
          /\ o.result = "ok"
          /\ \A i \in 1..Len(o.st.log) : o.st.log[i].sw = SW_OK
          /\ agent = o.st.a
          /\ scp = o.st.s
          /\ ghost = o.st.g
          /\ call = [op |-> "mutual_auth", arg |-> [counter |-> 0, apdu |-> <<>>],
                     result |-> o.result, sent |-> o.st.log, wrapped |-> 0, delivered |-> 0]

\* the call that gave o
CounterCall(op, apdu, o) ==
    /\ agent' = o.st.a
    /\ scp' = o.st.s
    /\ ghost' = o.st.g
    /\ call' = [op |-> op, arg |-> [counter |-> scp.encryption_counter, apdu |-> apdu],
                result |-> o.result, sent |-> o.st.log,
                wrapped |-> call.wrapped + Len(o.st.log),
                delivered |-> call.delivered
                    + Cardinality({ i \in 1..Len(o.st.log) : o.st.log[i].sw # SW_RAISE })]
    /\ UNCHANGED <<card, settings>>

CounterSendApdu ==
    /\ call.wrapped < MaxSends
    /\ \E apdu \in CounterApdus, sw \in ReaderSWs :
          CounterCall("send_apdu", apdu, send_apdu(Start, apdu, sw))

CounterDeleteContent ==
    /\ call.wrapped < MaxSends
    /\ \E sw \in ReaderSWs :
          CounterCall("delete_content", delete_apdu(PKG_AID),
                      delete_content(Start, PKG_AID, sw))

NextCounter ==
    \/ CounterSendApdu
    \/ CounterDeleteContent

SpecCounter == InitCounter /\ [][NextCounter]_vars

-----------------------------------------------------------------------------
(* The detection model: determineSCPAndKeyLength, alone and within         *)
(* mutual_auth, on what a card announces in Card Recognition Data and Key  *)
(* Information. The card holds AES keys of the length it announces.        *)

\* the i parameter an OID can carry, or no OID for the protocol
DetectI02 == {NoI, 0, 21, 85}

DetectI03 == {NoI, 0, 112}

\* Key Information: key lists with and without an AES key of key_id 01
DetectKeys ==
    { <<KeyEntry(1, 32, "DES", 16)>>,
      <<KeyEntry(1, 48, "AES", 16)>>,
      <<KeyEntry(1, 32, "DES", 16), KeyEntry(1, 48, "AES", 32)>>,
      <<KeyEntry(2, 48, "AES", 16), KeyEntry(1, 48, "AES", 24)>>,
      <<KeyEntry(2, 48, "AES", 16)>> }

InitDetect ==
    /\ agent = [is_mutually_authenticated |-> FALSE, has_scp |-> FALSE, sd_aid |-> <<>>]
    /\ scp = NoEngine
    /\ card \in { [crd02 |-> i2, crd03 |-> i3, keys |-> k, key |-> "K40",
                   aeslen |-> LET comps == ComponentsOfKeyId01(k)
                                  aes == FirstOfType(comps, {"AES"})
                              IN  IF aes # 0 THEN comps[aes].length ELSE 16]
                  : i2 \in DetectI02, i3 \in DetectI03, k \in DetectKeys }
    /\ settings \in { x \in Settings : x.key = "K40" /\ x.sd_aid = ISD_AID }
    /\ call = [op |-> "init", arg |-> <<>>, result |-> Decision("", 0, 0), sent |-> <<>>]
    /\ ghost = FALSE

\* one call of determineSCPAndKeyLength, with every answer to its probe
DetectCall ==
    /\ call.op = "init"
    /\ \E o \in detect(Start, card) :
          call' = [op |-> "determineSCPAndKeyLength", arg |-> o.probe,
                   result |-> o.d, sent |-> o.st.log]
    /\ UNCHANGED <<agent, scp, card, settings, ghost>>

\* one call of mutual_auth on such a card
DetectMutualAuth ==
    /\ call.op = "init"
    /\ \E o \in mutual_auth(Start, card, settings.sec_level, settings.key, settings.sd_aid) :
          /\ agent' = o.st.a
          /\ scp' = o.st.s
          /\ ghost' = o.st.g
          /\ call' = [op |-> "mutual_auth", arg |-> <<>>, result |-> o.result,
                      sent |-> o.st.log]
    /\ UNCHANGED <<card, settings>>

NextDetect ==
    \/ DetectCall
    \/ DetectMutualAuth

SpecDetect == InitDetect /\ [][NextDetect]_vars

-----------------------------------------------------------------------------
(* The command model: one content-management call on an authenticated      *)
(* session, with AIDs, privileges and parameters of several lengths.       *)

\* an AID of n bytes
AidOf(n) == [i \in 1..n |-> 160 + i]

CommandAids == { AidOf(n) : n \in {5, 7, MaxAid} }

CommandPrivileges == { <<0>>, <<128, 0, 0>> }

CommandParams == { [i \in 1..n |-> 201] : n \in {0, 2, MaxParams} }

CommandsLoadCap ==
    /\ call.op = "mutual_auth"
    /\ \E cap_aid \in CommandAids, sd_aid \in CommandAids \cup {<<>>},
          load_params \in CommandParams, failAt \in LoadFails(0, {SW_COND}) :
          LET o == load_cap(Start, TRUE, cap_aid, sd_aid, load_params, Payload(1),
                            <<>>, TRUE, failAt)
          IN  Finish("load_cap", <<cap_aid, sd_aid, <<>>, load_params, <<>>>>,
                     o.st, o.result)

CommandsInstallApplet ==
    /\ call.op = "mutual_auth"
    /\ \E cap_aid \in CommandAids, class_aid \in CommandAids, instance_aid \in CommandAids,
          priviledges \in CommandPrivileges, install_params \in CommandParams,
          sw \in CardSWs :
          LET o == install_applet(Start, cap_aid, class_aid, instance_aid, priviledges,
                                  install_params, sw)
          IN  Finish("install_applet",
                     <<cap_aid, class_aid, instance_aid, priviledges, install_params, <<>>>>,
                     o.st, o.result)

CommandsDeleteContent ==
    /\ call.op = "mutual_auth"
    /\ \E aid \in CommandAids, sw \in CardSWs :
          LET o == delete_content(Start, aid, sw)
          IN  Finish("delete_content", <<aid>>, o.st, o.result)

\* the statuses of the GET STATUS commands for one P1
CommandPhaseSWs ==
    { [k \in 1..(m + 1) |-> IF k <= m THEN SW_MORE ELSE f] :
        m \in 0..MaxListMore, f \in CardSWs }

CommandsListContent ==
    /\ call.op = "mutual_auth"
    /\ \E deprecated \in BOOLEAN, isd \in CommandPhaseSWs, apps \in CommandPhaseSWs,
          pkgs \in CommandPhaseSWs :
          LET o == list_content(Start, deprecated, isd, apps, pkgs)
          IN  Finish("list_content",
                     [deprecated |-> deprecated, decoded |-> registry_input(isd, apps, pkgs)],
                     o.st, o.result)

NextCommands ==
    \/ CommandsLoadCap
    \/ CommandsInstallApplet
    \/ CommandsDeleteContent
    \/ CommandsListContent

SpecCommands == InitLoad /\ [][NextCommands]_vars

-----------------------------------------------------------------------------
(* The registry decoder (gpdata.py) and the BER-TLV parser (tlvparser.py). *)
(* A str of hex digits is modelled by the bytes it spells, and the str     *)
(* ", ".join(names) by the sequence of the names ("-" by <<"-">>).         *)

COMPONENT_TYPE_PKG == 0
COMPONENT_TYPE_APP == 1

RECURSIVE And(_, _)
\* a & b
And(a, b) == IF a = 0 \/ b = 0 THEN 0 ELSE (a % 2) * (b % 2) + 2 * And(a \div 2, b \div 2)

RECURSIVE FromBytesBE(_)
\* int.from_bytes(seq, byteorder="big"), int(hex, 16)
FromBytesBE(seq) ==
    IF seq = <<>> THEN 0 ELSE 256 * FromBytesBE(SubSeq(seq, 1, Len(seq) - 1)) + seq[Len(seq)]

\* a variant that tests the masks before the exact values
_get_life_cycle_str_masks_first(life_cycle_int, component_type) ==
    IF component_type = COMPONENT_TYPE_PKG
    THEN (IF life_cycle_int = 1 THEN "LOADED" ELSE "UNKNOWN")
    ELSE IF And(life_cycle_int, 131) = 3 THEN "APP-SPECIFIC"
    ELSE IF And(life_cycle_int, 131) = 131 THEN "LOCKED"
    ELSE IF life_cycle_int = 3 THEN "INSTALLED"
    ELSE IF life_cycle_int = 7 THEN "SELECTABLE"
    ELSE IF life_cycle_int = 15 THEN "PERSONALIZED"
    ELSE "UNKNOWN"

_get_life_cycle_str(life_cycle_int, component_type) ==
    IF component_type = COMPONENT_TYPE_PKG
    THEN (IF life_cycle_int = 1 THEN "LOADED" ELSE "UNKNOWN")
    ELSE IF life_cycle_int = 3 THEN "INSTALLED"
    ELSE IF life_cycle_int = 7 THEN "SELECTABLE"
    ELSE IF life_cycle_int = 15 THEN "PERSONALIZED"
    ELSE IF And(life_cycle_int, 131) = 3 THEN "APP-SPECIFIC"
    ELSE IF And(life_cycle_int, 131) = 131 THEN "LOCKED"
    ELSE "UNKNOWN"

\* bitmask and name, in the order of each dict
BYTE_MAPS ==
    << << <<128, "Security Domain">>, <<192, "DAP Verification">>,
          <<160, "Delegated Management">>, <<16, "Card Lock">>, <<8, "Card Terminate">>,
          <<4, "Card Reset">>, <<2, "CVM Management">>, <<193, "Mandated DAP Verification">> >>,
       << <<128, "Trusted Path">>, <<64, "Authorized Management">>,
          <<32, "Token Management">>, <<16, "Global Delete">>, <<8, "Global Lock">>,
          <<4, "Global Registry">>, <<2, "Final Application">>, <<1, "Global Service">> >>,
       << <<128, "Receipt Generation">>, <<64, "CFLDB">>, <<32, "Contactless Activation">>,
          <<16, "Contactless Self-Activation">> >> >>

RECURSIVE priv_names(_, _, _)
\* the names of byte_map, from entry k on, whose bitmask is set in byte_value
priv_names(byte_map, byte_value, k) ==
    IF k > Len(byte_map) THEN <<>>
    ELSE (IF And(byte_value, byte_map[k][1]) = byte_map[k][1] THEN <<byte_map[k][2]>> ELSE <<>>)
         \o priv_names(byte_map, byte_value, k + 1)

RECURSIVE priv_list_names(_, _)
\* privileges.extend(...) for the byte maps from index on
priv_list_names(priv_list, index) ==
    IF index > Len(BYTE_MAPS) THEN <<>>
    ELSE (IF index <= Len(priv_list) THEN priv_names(BYTE_MAPS[index], priv_list[index], 1)
                                     ELSE <<>>)
         \o priv_list_names(priv_list, index + 1)

\* a variant that reads the first privilege byte only
_get_priv_str_first_byte(priv_list) ==
    IF priv_list_names(Take(priv_list, 1), 1) # <<>>
    THEN priv_list_names(Take(priv_list, 1), 1) ELSE <<"-">>

_get_priv_str(priv_list) ==
    IF priv_list_names(priv_list, 1) # <<>> THEN priv_list_names(priv_list, 1) ELSE <<"-">>

\* tlvparser.parse_tag: the bytes of the tag and the index after it
parse_tag(data, index) ==
    IF And(data[index], 31) = 31
    THEN LET last == CHOOSE j \in (index + 1)..Len(data) :
                        /\ data[j] < 128
                        /\ \A k \in (index + 1)..(j - 1) : data[k] >= 128
         IN  [tag |-> SubSeq(data, index, last), index |-> last + 1]
    ELSE [tag |-> <<data[index]>>, index |-> index + 1]

\* tlvparser.parse_length
parse_length(data, index) ==
    IF data[index] < 128 THEN [length |-> data[index], index |-> index + 1]
    ELSE [length |-> FromBytesBE(SubSeq(data, index + 1,
                                        Min(index + And(data[index], 127), Len(data)))),
          index |-> index + 1 + And(data[index], 127)]

\* the tag is a constructed one: its value is a list of TLVs
is_constructed(tag) == And(tag[1], 32) = 32

RECURSIVE parse_ber_tlv(_)
\* one TLV given its tag t and its length l, then the TLVs after it
parse_ber_tlv_item(data, t, l) ==
    <<[tag |-> t.tag, length |-> l.length,
       value |-> IF is_constructed(t.tag)
                 THEN parse_ber_tlv(SubSeq(data, l.index, Min(l.index + l.length - 1, Len(data))))
                 ELSE SubSeq(data, l.index, Min(l.index + l.length - 1, Len(data)))]>>
    \o parse_ber_tlv(Drop(data, l.index + l.length - 1))

parse_ber_tlv_from(data, t) == parse_ber_tlv_item(data, t, parse_length(data, t.index))

parse_ber_tlv(data) ==
    IF data = <<>> THEN <<>> ELSE parse_ber_tlv_from(data, parse_tag(data, 1))

RECURSIVE find_all_nested_tags(_, _)
find_all_nested_tags(tlv_list, tag_sequence) ==
    IF tag_sequence = <<>> \/ tlv_list = <<>> THEN <<>>
    ELSE (IF tlv_list[1].tag # tag_sequence[1] THEN <<>>
          ELSE IF Len(tag_sequence) = 1 THEN <<tlv_list[1].value>>
          ELSE IF is_constructed(tlv_list[1].tag)
          THEN find_all_nested_tags(tlv_list[1].value, Tail(tag_sequence))
          ELSE <<>>)
         \o find_all_nested_tags(Tail(tlv_list), tag_sequence)

\* the values of the TLVs of element that have the tag, in order
values_of(element, tag) ==
    LET At == { i \in 1..Len(element) : element[i].tag = tag }
        Nth(n) == CHOOSE i \in At : Cardinality({ j \in At : j <= i }) = n
    IN  [n \in 1..Cardinality(At) |-> element[Nth(n)].value]

\* app_info / pkg_info [key] after the loop over the TLVs: the last value
\* assigned, none if the tag did not occur
last_of(values) == IF values = <<>> THEN <<>> ELSE <<values[Len(values)]>>

\* one entry of parsed_applications_info (modern form)
application_entry(element) ==
    LET aid == last_of(values_of(element, <<79>>))
        life_cycle == last_of(values_of(element, <<159, 112>>))
        priv == last_of(values_of(element, <<197>>))
        associated_package == last_of(values_of(element, <<196>>))
    IN  << IF aid = <<>> THEN <<>> ELSE aid[1],
           IF life_cycle = <<>> THEN "-"
           ELSE _get_life_cycle_str(FromBytesBE(life_cycle[1]), COMPONENT_TYPE_APP),
           IF priv = <<>> THEN <<"-">> ELSE _get_priv_str(priv[1]),
           IF associated_package = <<>> THEN <<>> ELSE associated_package[1] >>

\* one entry of parsed_packages_info (modern form)
package_entry(element) ==
    LET aid == last_of(values_of(element, <<79>>))
        life_cycle == last_of(values_of(element, <<159, 112>>))
        package_version == last_of(values_of(element, <<206>>))
    IN  << IF aid = <<>> THEN <<>> ELSE aid[1],
           IF life_cycle = <<>> THEN "-"
           ELSE _get_life_cycle_str(FromBytesBE(life_cycle[1]), COMPONENT_TYPE_PKG),
           values_of(element, <<132>>),
           IF package_version = <<>> THEN <<"-">> ELSE package_version[1] >>

RECURSIVE deprecated_applications(_)
\* the deprecated form: length, AID, life cycle, one privilege byte
deprecated_applications(info) ==
    IF info = <<>> THEN <<>>
    ELSE << << SubSeq(info, 2, 1 + info[1]),
               _get_life_cycle_str(info[2 + info[1]], COMPONENT_TYPE_APP),
               _get_priv_str(<<info[3 + info[1]]>>),
               <<>> >> >>
         \o deprecated_applications(Drop(info, 3 + info[1]))

RECURSIVE deprecated_classes(_, _)
\* the n applet class AIDs at the head of info, then what is left of info
deprecated_classes(info, n) ==
    IF n = 0 THEN [classes |-> <<>>, rest |-> info]
    ELSE LET r == deprecated_classes(Drop(info, 1 + info[1]), n - 1)
         IN  [classes |-> <<SubSeq(info, 2, 1 + info[1])>> \o r.classes, rest |-> r.rest]

RECURSIVE deprecated_packages(_)
\* one package given its classes c, then the packages after it
deprecated_package(info, c) ==
    << << SubSeq(info, 2, 1 + info[1]),
          _get_life_cycle_str(info[2 + info[1]], COMPONENT_TYPE_PKG),
          c.classes, <<"-">> >> >>
    \o deprecated_packages(c.rest)

\* the deprecated form: length, AID, life cycle, privileges, number of
\* classes, and for each class its length and AID
deprecated_packages(info) ==
    IF info = <<>> THEN <<>>
    ELSE deprecated_package(info, deprecated_classes(Drop(info, 4 + info[1]),
                                                     info[4 + info[1]]))

GP_REGISTRY_RELATED_DATA_TAG == 227

\* x[0] of an empty list raises
get_parsed_gp_registry_info(applications_info, packages_info) ==
    IF applications_info = <<>> \/ packages_info = <<>>
    THEN [raised |-> TRUE, applications |-> <<>>, packages |-> <<>>]
    ELSE [raised |-> FALSE,
          applications |->
              IF applications_info[1] = GP_REGISTRY_RELATED_DATA_TAG
              THEN LET e3 == find_all_nested_tags(parse_ber_tlv(applications_info), <<<<227>>>>)
                   IN  [n \in 1..Len(e3) |-> application_entry(e3[n])]
              ELSE deprecated_applications(applications_info),
          packages |->
              IF packages_info[1] = GP_REGISTRY_RELATED_DATA_TAG
              THEN LET e3 == find_all_nested_tags(parse_ber_tlv(packages_info), <<<<227>>>>)
                   IN  [n \in 1..Len(e3) |-> package_entry(e3[n])]
              ELSE deprecated_packages(packages_info)]

-----------------------------------------------------------------------------
(* The registry model: the decoder on one life-cycle byte, and on the data *)
(* a card gives for its applications and packages.                         *)

\* what a card holds for one application or package
RegistryAids == { <<160, 0, 0, 0, 3, 0, 0>>, <<160, 0, 0, 1, 81, 0, 0, 0>> }

RegistryLifeCycles == {1, 3, 7, 15, 131}

RegistryPrivileges == { <<158, 128>>, <<128>>, <<0>>, <<128, 192, 64>> }

\* a TLV with a one-byte length
Tlv(tag, value) == tag \o <<Len(value)>> \o value

\* GET STATUS data of the card for one application, in each form
application_data(modern, aid, life_cycle, priv, package) ==
    IF modern
    THEN Tlv(<<227>>, Tlv(<<79>>, aid) \o Tlv(<<159, 112>>, <<life_cycle>>)
                      \o Tlv(<<197>>, priv)
                      \o (IF package = <<>> THEN <<>> ELSE Tlv(<<196>>, package)))
    ELSE <<Len(aid)>> \o aid \o <<life_cycle, priv[1]>>

\* GET STATUS data of the card for one package with one applet class
package_data(modern, aid, life_cycle, class) ==
    IF modern
    THEN Tlv(<<227>>, Tlv(<<79>>, aid) \o Tlv(<<159, 112>>, <<life_cycle>>)
                      \o Tlv(<<206>>, <<1, 0>>) \o Tlv(<<132>>, class))
    ELSE <<Len(aid)>> \o aid \o <<life_cycle, 0, 1>> \o <<Len(class)>> \o class

InitRegistry ==
    /\ agent = [is_mutually_authenticated |-> FALSE, has_scp |-> FALSE, sd_aid |-> <<>>]
    /\ scp = NoEngine
    /\ card = LoadCard
    /\ settings = LoadSettings
    /\ call = [op |-> "init", arg |-> <<>>, result |-> <<>>, sent |-> <<>>]
    /\ ghost = FALSE

RegistryLifeCycle ==
    /\ call.op = "init"
    /\ \E v \in 0..255, component_type \in {COMPONENT_TYPE_PKG, COMPONENT_TYPE_APP} :
          call' = [op |-> "_get_life_cycle_str", arg |-> <<v, component_type>>,
                   result |-> _get_life_cycle_str(v, component_type), sent |-> <<>>]
    /\ UNCHANGED <<agent, scp, card, settings, ghost>>

RegistryParse ==
    /\ call.op = "init"
    /\ \E modern \in BOOLEAN, aid \in RegistryAids, life_cycle \in RegistryLifeCycles,
          priv \in RegistryPrivileges, package \in RegistryAids \cup {<<>>},
          second \in BOOLEAN, packages \in BOOLEAN :
          LET applications_info ==
                  application_data(modern, aid, life_cycle, priv, package)
                  \o (IF second
                      THEN application_data(modern, <<160, 0, 0, 1, 81>>, 7, <<0>>, <<>>)
                      ELSE <<>>)
              packages_info ==
                  IF packages
                  THEN package_data(modern, <<160, 0, 0, 1, 81, 0, 0, 0>>, life_cycle, aid)
                  ELSE <<>>
          IN  call' = [op |-> "get_parsed_gp_registry_info",
                       arg |-> <<applications_info, packages_info>>,
                       result |-> get_parsed_gp_registry_info(applications_info,
                                                              packages_info),
                       sent |-> <<>>]
    /\ UNCHANGED <<agent, scp, card, settings, ghost>>

NextRegistry ==
    \/ RegistryLifeCycle
    \/ RegistryParse

SpecRegistry == InitRegistry /\ [][NextRegistry]_vars

-----------------------------------------------------------------------------
(* The facade model: CCM over one card reader. call.connected tells        *)
(* whether the reader holds a connection to the card; a card that was      *)
(* disconnected has lost its session.                                      *)

InitFacade ==
    /\ agent = [is_mutually_authenticated |-> FALSE, has_scp |-> FALSE, sd_aid |-> <<>>]
    /\ scp = NoEngine
    /\ card = LoadCard
    /\ settings \in { x \in Settings : x.key = "K40" /\ x.sd_aid = ISD_AID }
    /\ call = [op |-> "init", arg |-> <<>>, result |-> "none", sent |-> <<>>,
               connected |-> TRUE]
    /\ ghost = FALSE

\* the facade call that gave o
FacadeCall(op, o, connected) ==
    /\ agent' = o.st.a
    /\ scp' = o.st.s
    /\ ghost' = o.st.g
    /\ call' = [op |-> op, arg |-> <<>>, result |-> o.result, sent |-> o.st.log,
                connected |-> connected]

\* CCM.mutual_auth on a connected reader
FacadeMutualAuth ==
    /\ call.connected
    /\ \E o \in mutual_auth(Start, card, settings.sec_level, settings.key, settings.sd_aid) :
          FacadeCall("mutual_auth", o, TRUE)
    /\ UNCHANGED <<card, settings>>

\* CCM.delete_content: the reader raises when it holds no connection
FacadeDeleteContent ==
    /\ Fresh
    /\ \E sw \in IF call.connected THEN CardSWs ELSE {SW_RAISE} :
          FacadeCall("delete_content", delete_content(Start, PKG_AID, sw), call.connected)
    /\ UNCHANGED <<card, settings>>

\* CCM.reset_card: disconnect, connect, and a new agent if connect returned
\* True
FacadeResetCard ==
    /\ \E connects \in BOOLEAN :
          FacadeCall("reset_card",
                     [st |-> [a |-> IF connects
                                    THEN [is_mutually_authenticated |-> FALSE,
                                          has_scp |-> FALSE, sd_aid |-> <<>>]
                                    ELSE agent,
                              s |-> IF connects THEN NoEngine ELSE scp,
                              g |-> FALSE, log |-> <<>>],
                      result |-> IF connects THEN "ok" ELSE "fail"],
                     connects)
    /\ UNCHANGED <<card, settings>>

\* CardReader.disconnect on the connection of the facade
FacadeDisconnect ==
    /\ call.connected
    /\ FacadeCall("disconnect",
                  [st |-> [a |-> agent, s |-> scp, g |-> FALSE, log |-> <<>>],
                   result |-> "ok"],
                  FALSE)
    /\ UNCHANGED <<card, settings>>

NextFacade ==
    \/ FacadeMutualAuth
    \/ FacadeDeleteContent
    \/ FacadeResetCard
    \/ FacadeDisconnect

SpecFacade == InitFacade /\ [][NextFacade]_vars

-----------------------------------------------------------------------------
(* The wire model: the commands of an established session as the reader    *)
(* transmits them. call.wire lists what the card received in the last      *)
(* call, call.arg keeps the security level and the number of chained MACs  *)
(* the call started with.                                                  *)

MaxWireChain == 3    \* a call of the wire model starts while fewer MACs are chained

WireCards ==
    { c \in Cards : \/ c.crd02 = 21 /\ c.crd03 = NoI
                    \/ c.crd02 = NoI /\ c.crd03 = 112 }

\* no data, data
WireApdus == { <<128, 202, 0, 102, 0>>, <<128, 226, 144, 0, 6, 1, 2, 3, 4, 5, 6>> }

WireStatuses == {SW_OK, SW_COND, <<108, 9>>, <<97, 5>>}

\* the answers of the card to the transmissions of one CardReader.send_apdu:
\* a 6C xx first answer is followed by the answer to the corrected command,
\* every 61 xx from there on by the answer to a GET RESPONSE, and an
\* exception of transmit ends the run
ReaderRuns ==
    { r \in SeqsUpTo(WireStatuses \cup {SW_RAISE}, 3) :
        /\ r # <<>>
        /\ \A j \in 1..(Len(r) - 1) : r[j] # SW_RAISE
        /\ LET k == IF r[1][1] = 108 THEN 2 ELSE 1
           IN  /\ Len(r) >= k
               /\ \A j \in k..(Len(r) - 1) : r[j][1] = 97
               /\ r[Len(r)][1] # 97 }

\* one transmit: the command as the engine built it, or with its last byte
\* replaced (last = <<byte>>)
Transmitted(kind, wire, last) == [kind |-> kind, wire |-> wire, last |-> last]

\* CardReader.send_apdu(command) with the default auto_get_response and
\* auto_correct_le, for a command in the form the engine built it: what it
\* transmits for the answers it gets, and the status it returns
CardReader_send_apdu(wire, answers) ==
    LET k == IF answers[1][1] = 108 THEN 2 ELSE 1
    IN  [transmitted |->
            <<Transmitted("command", wire, <<>>)>>
            \o (IF k = 2 THEN <<Transmitted("corrected", wire, <<answers[1][2]>>)>>
                         ELSE <<>>)
            \o [j \in 1..(Len(answers) - k) |->
                   Transmitted("get_response",
                               PlainWire(get_response(answers[k + j - 1][2])), <<>>)],
         sw |-> answers[Len(answers)]]

InitWire ==
    /\ card \in WireCards
    /\ settings \in { x \in Settings : /\ HasBit(x.sec_level, SCP_SECLEVEL_C_MAC)
                                       /\ x.key = "K40" /\ x.sd_aid = ISD_AID }
    /\ \E o \in mutual_auth([a |-> [is_mutually_authenticated |-> FALSE, has_scp |-> FALSE,
                                    sd_aid |-> <<>>],
                             s |-> NoEngine, g |-> FALSE, log |-> <<>>],
                            card, settings.sec_level, settings.key, settings.sd_aid) :
          /\ o.result = "ok"
          /\ \A i \in 1..Len(o.st.log) : o.st.log[i].sw = SW_OK
          /\ agent = o.st.a
          /\ scp = o.st.s
          /\ ghost = o.st.g
          /\ call = [op |-> "mutual_auth", arg |-> [level |-> 0, chained |-> 0, answers |-> <<>>],
                     result |-> o.result, sent |-> o.st.log, wire |-> <<>>]

\* the call that gave o, its one command answered by the run answers
WireCall(op, o, answers) ==
    /\ agent' = o.st.a
    /\ scp' = o.st.s
    /\ ghost' = o.st.g
    /\ call' = [op |-> op,
                arg |-> [level |-> scp.sec_level,
                         chained |-> Len(scp.last_mac) + Len(scp.mac_chain),
                         answers |-> answers],
                result |-> o.result, sent |-> o.st.log,
                wire |-> IF o.st.log = <<>> THEN <<>>
                         ELSE CardReader_send_apdu(o.st.log[1].wire, answers).transmitted]

WireSendApdu ==
    /\ Len(scp.last_mac) + Len(scp.mac_chain) < MaxWireChain
    /\ \E apdu \in WireApdus, answers \in ReaderRuns :
          WireCall("send_apdu",
                   send_apdu(Start, apdu, CardReader_send_apdu(PlainWire(apdu), answers).sw),
                   answers)
    /\ UNCHANGED <<card, settings>>

WireDeleteContent ==
    /\ Len(scp.last_mac) + Len(scp.mac_chain) < MaxWireChain
    /\ \E answers \in ReaderRuns :
          WireCall("delete_content",
                   delete_content(Start, PKG_AID,
                                  CardReader_send_apdu(PlainWire(delete_apdu(PKG_AID)),
                                                       answers).sw),
                   answers)
    /\ UNCHANGED <<card, settings>>

NextWire ==
    \/ WireSendApdu
    \/ WireDeleteContent

SpecWire == InitWire /\ [][NextWire]_vars

-----------------------------------------------------------------------------
(* The twin model: two SCP03 engines created with the same static ENC key  *)
(* and different static MAC / DEK keys (scp and call.twin), whose methods  *)
(* are called with the same arguments and get the same answers from the    *)
(* card. call.sent / call.twin_sent hold what each handed to the reader in *)
(* the last call, call.result what each returned.                          *)

TwinKeyNames == {"K40", "KBAD", "KALT"}

TwinCards == { c \in Cards : c.crd02 = NoI /\ c.crd03 # NoI }

\* no data, data, a SELECT
TwinCommands ==
    { <<128, 202, 0, 102, 0>>, <<128, 226, 144, 0, 6, 1, 2, 3, 4, 5, 6>>,
      SelectApdu(5, ISD_AID) }

\* what a method of the engine returned
Returned(r) == IF r.raised THEN "raise" ELSE IF r.ok THEN "ok" ELSE "fail"

InitTwin ==
    /\ agent = [is_mutually_authenticated |-> FALSE, has_scp |-> TRUE, sd_aid |-> ISD_AID]
    /\ ghost = FALSE
    /\ card \in TwinCards
    /\ settings \in { x \in Settings : x.sd_aid = ISD_AID }
    /\ \E mac \in TwinKeyNames, dek \in TwinKeyNames,
          twin_mac \in TwinKeyNames, twin_dek \in TwinKeyNames :
          /\ <<mac, dek>> # <<twin_mac, twin_dek>>
          /\ scp = SCP03_init(StaticKey(settings.key, card.aeslen),
                              StaticKey(mac, card.aeslen),
                              StaticKey(dek, card.aeslen), card.crd03)
          /\ call = [op |-> "init", arg |-> <<>>, result |-> <<"none", "none">>,
                     sent |-> <<>>, twin_sent |-> <<>>,
                     twin |-> SCP03_init(StaticKey(settings.key, card.aeslen),
                                         StaticKey(twin_mac, card.aeslen),
                                         StaticKey(twin_dek, card.aeslen), card.crd03)]

\* both engines run initialize_update and get the same response
TwinInitializeUpdate ==
    /\ \E a \in InitUpdateAnswers(SCP03_resp_lens) :
          LET resp == SCP03_card_resp(card, SCP03_host_challenge, a[1], a[2], a[3])
              r == SCP03_initialize_update(scp, resp)
              t == SCP03_initialize_update(call.twin, resp)
          IN  /\ scp' = r.s
              /\ call' = [op |-> "initialize_update", arg |-> a,
                          result |-> <<Returned(r), Returned(t)>>,
                          sent |-> <<PlainWire(SCP03_init_update_apdu)>>,
                          twin_sent |-> <<PlainWire(SCP03_init_update_apdu)>>,
                          twin |-> t.s]
    /\ UNCHANGED <<agent, card, settings, ghost>>

\* both engines run external_authenticate after an initialize_update that
\* returned True, and get the same status
TwinExternalAuthenticate ==
    /\ call.op = "initialize_update"
    /\ call.result[1] = "ok"
    /\ \E sw \in CardSWs :
          LET r == SCP03_external_authenticate(scp, settings.sec_level, sw)
              t == SCP03_external_authenticate(call.twin, settings.sec_level, sw)
          IN  /\ scp' = r.s
              /\ call' = [op |-> "external_authenticate", arg |-> sw,
                          result |-> <<Returned(r), Returned(t)>>,
                          sent |-> <<SCP03_ext_auth_wire(scp, settings.sec_level).wire>>,
                          twin_sent |->
                              <<SCP03_ext_auth_wire(call.twin, settings.sec_level).wire>>,
                          twin |-> t.s]
    /\ UNCHANGED <<agent, card, settings, ghost>>

\* both engines are handed the same command
TwinSendSecureApdu ==
    /\ call.op # "init"
    /\ Fresh
    /\ \E command \in TwinCommands :
          LET r == SCP03_send_secure_apdu(scp, command)
              t == SCP03_send_secure_apdu(call.twin, command)
          IN  /\ scp' = r.s
              /\ call' = [op |-> "send_secure_apdu", arg |-> command,
                          result |-> <<IF r.raised THEN "raise" ELSE "ok",
                                       IF t.raised THEN "raise" ELSE "ok">>,
                          sent |-> IF r.sends THEN <<r.wire>> ELSE <<>>,
                          twin_sent |-> IF t.sends THEN <<t.wire>> ELSE <<>>,
                          twin |-> t.s]
    /\ UNCHANGED <<agent, card, settings, ghost>>

NextTwin ==
    \/ TwinInitializeUpdate
    \/ TwinExternalAuthenticate
    \/ TwinSendSecureApdu

SpecTwin == InitTwin /\ [][NextTwin]_vars

-----------------------------------------------------------------------------
(* Observations on the record of the last call                             *)

ContentOps == {"load_cap", "install_applet", "delete_content", "list_content"}

\* 80 E6 02, 80 E8, 80 E6 0C, 80 E4, 80 F2
IsContentCommand(command) ==
    \/ Take(command, 3) \in {<<128, 230, 2>>, <<128, 230, 12>>}
    \/ Take(command, 2) \in {<<128, 232>>, <<128, 228>>, <<128, 242>>}

IsInitUpdate(x) == x.wire.hdr = <<128, 80, 0, 0, Len(x.wire.body.data)>>

IsExtAuth(x) == Take(x.wire.hdr, 2) = <<132, 130>>

\* the last call handed a SELECT to the engine (send_apdu on a session)
SelectThroughSession ==
    /\ call.op = "send_apdu"
    /\ Len(call.sent) = 1
    /\ call.sent[1].kind = "secure"
    /\ IsSelect(call.sent[1].input)

NoSessionKeys(s) ==
    s.session_enc = NoKey /\ s.session_mac = NoKey /\ s.session_dek = NoKey

NoStaticKeys(s) ==
    s.static_enc = NoKey /\ s.static_mac = NoKey /\ s.static_dek = NoKey

EmptyChain(s) == s.last_mac = <<>> /\ s.mac_chain = <<>>

\* key material, security level and authentication flags of a session
SessionFrame(a, s) ==
    <<s.static_enc, s.static_mac, s.static_dek, s.session_enc, s.session_mac,
      s.session_dek, s.sec_level, s.is_mutually_authenticated,
      a.is_mutually_authenticated>>

-----------------------------------------------------------------------------
(* Claims                                                                  *)

\* C1: no content-management command (80 E6 02, 80 E8, 80 E6 0C, 80 E4,
\* 80 F2) is handed to the reader unless the secure session is established at
\* that moment, and a content operation called without an established
\* session transmits nothing and does not succeed.
C1_ContentOnlyWhenAuthenticated ==
    /\ \A i \in 1..Len(call.sent) :
          IsContentCommand(call.sent[i].input) => call.sent[i].auth
    /\ (call.op \in ContentOps /\ ~ghost /\ call.result = "ok") => call.sent # <<>>

\* C2: a step of send_apdu with an APDU starting 00 A4 04, taken in the
\* Authenticated state, ends with the agent flag cleared, the engine flag
\* cleared and the security level None.
C2_SelectEndsAuthentication ==
    [][ (/\ agent.is_mutually_authenticated
         /\ ghost
         /\ call'.op = "send_apdu"
         /\ IsSelect(call'.arg.apdu))
        => (/\ ~agent'.is_mutually_authenticated
            /\ ~scp'.is_mutually_authenticated
            /\ scp'.sec_level = SCP_SECLEVEL_NO_SECURITY_LEVEL) ]_vars

\* C3: a SELECT handed to send_secure_apdu of either engine, at whatever
\* security level, reaches the reader exactly as given (same header and Lc,
\* data in clear, no MAC), and after it the engine has security level None,
\* no session keys and no authentication flag.
C3_SelectIsNeverWrapped ==
    /\ \A i \in 1..Len(call.sent) :
          (call.sent[i].kind = "secure" /\ IsSelect(call.sent[i].input))
          => (IsPlainWire(call.sent[i].wire)
              /\ WireBytes(call.sent[i].wire) = call.sent[i].input)
    /\ SelectThroughSession
       => (/\ scp.sec_level = SCP_SECLEVEL_NO_SECURITY_LEVEL
           /\ scp.session_enc = NoKey /\ scp.session_mac = NoKey
           /\ ~scp.is_mutually_authenticated)

\* C3 witness: a SELECT went through an SCP03 session at C-MAC + C-DECRYPTION
C3_Witness ==
    /\ SelectThroughSession
    /\ scp.proto = "SCP03"
    /\ call.sent[1].level = SCP_SECLEVEL_C_MAC + SCP_SECLEVEL_C_DECRYPTION
    /\ Len(call.sent[1].input) > 5

\* the three exchanges of the handshake all ended well
HandshakeOk(sent) ==
    /\ \E i \in 1..Len(sent) : IsSelect(sent[i].input)
    /\ \A i \in 1..Len(sent) : IsSelect(sent[i].input) => sent[i].sw = SW_OK
    /\ \E i \in 1..Len(sent) :
          /\ sent[i].kind = "engine" /\ IsInitUpdate(sent[i])
          /\ sent[i].sw = SW_OK /\ sent[i].note = "match"
    /\ \E i \in 1..Len(sent) :
          sent[i].kind = "engine" /\ IsExtAuth(sent[i]) /\ sent[i].sw = SW_OK

\* C4: mutual_auth returns success and leaves the agent authenticated exactly
\* when the ISD SELECT returned 90 00, INITIALIZE UPDATE returned 90 00 with a
\* matching card cryptogram and EXTERNAL AUTHENTICATE returned 90 00; in
\* every other case the agent is left not authenticated.
C4_AuthenticatedIffHandshake ==
    call.op = "mutual_auth"
    => (/\ (call.result = "ok" /\ agent.is_mutually_authenticated) <=> HandshakeOk(call.sent)
        /\ call.result # "ok" => ~agent.is_mutually_authenticated)

\* C5: when the card cryptogram does not match, mutual_auth returns failure,
\* the agent is not authenticated, and the INITIALIZE UPDATE that brought the
\* cryptogram is the last command of the call (no EXTERNAL AUTHENTICATE, no
\* further INITIALIZE UPDATE).
C5_MismatchStopsHandshake ==
    \A i \in 1..Len(call.sent) :
        (call.op = "mutual_auth" /\ call.sent[i].note = "mismatch")
        => (/\ call.result = "fail"
            /\ ~agent.is_mutually_authenticated
            /\ \A j \in (i + 1)..Len(call.sent) :
                  ~IsExtAuth(call.sent[j]) /\ ~IsInitUpdate(call.sent[j]))

\* C5 witness: an SCP03 card answered INITIALIZE UPDATE with a cryptogram made
\* with other keys than the host's
C5_Witness ==
    /\ call.op = "mutual_auth"
    /\ scp.proto = "SCP03"
    /\ \E i \in 1..Len(call.sent) :
          call.sent[i].note = "mismatch" /\ call.sent[i].sw = SW_OK

\* C6: after a reset of the session (here: a SELECT through it) the engine
\* holds no key material: no session keys, no static keys, no MAC chain.
C6_ResetClearsAllKeys ==
    SelectThroughSession => (NoSessionKeys(scp) /\ NoStaticKeys(scp) /\ EmptyChain(scp))

\* C7: a step that passes no SELECT to the engine and starts no handshake
\* leaves the key material, the security level and the authentication flags
\* as they were, whatever status the card returns; and after a rejected
\* EXTERNAL AUTHENTICATE the session keys derived for it are still there, the
\* security level is still None and nothing is marked authenticated.
C7_ErrorsLeaveSessionAlone ==
    [][ /\ (/\ call'.op \in ContentOps \cup {"send_apdu"}
            /\ (call'.op = "send_apdu" => ~IsSelect(call'.arg.apdu)))
           => SessionFrame(agent', scp') = SessionFrame(agent, scp)
        /\ (/\ call'.op = "mutual_auth"
            /\ call'.sent # <<>>
            /\ IsExtAuth(call'.sent[Len(call'.sent)])
            /\ call'.sent[Len(call'.sent)].sw # SW_OK)
           => (/\ scp'.session_enc # NoKey /\ scp'.session_mac # NoKey
               /\ scp'.sec_level = SCP_SECLEVEL_NO_SECURITY_LEVEL
               /\ ~scp'.is_mutually_authenticated
               /\ ~agent'.is_mutually_authenticated
               /\ call'.result = "fail") ]_vars

\* C7 witness: DELETE was refused by the card on a session at C-MAC
C7_Witness ==
    /\ call.op = "delete_content"
    /\ Len(call.sent) = 1
    /\ call.sent[1].sw = SW_COND
    /\ call.sent[1].level = SCP_SECLEVEL_C_MAC
    /\ scp.sec_level = SCP_SECLEVEL_C_MAC
    /\ agent.is_mutually_authenticated

IsInstallForLoad(command) == Take(command, 4) = <<128, 230, 2, 0>>

IsLoad(command) == Take(command, 2) = <<128, 232>>

RECURSIVE Concat(_, _, _)
\* seqs[lo] \o ... \o seqs[hi], by halves
Concat(seqs, lo, hi) ==
    IF lo > hi THEN <<>>
    ELSE IF lo = hi THEN seqs[lo]
    ELSE Concat(seqs, lo, (lo + hi) \div 2) \o Concat(seqs, (lo + hi) \div 2 + 1, hi)

\* the data fields of the commands that follow the first one, joined in order
LoadData(sent) ==
    Concat([i \in 1..(Len(sent) - 1) |-> Drop(sent[i + 1].input, 5)], 1, Len(sent) - 1)

\* BER length: one byte up to 127, then 81 xx, then 82 xx xx
BerLength(n) ==
    IF n <= 127 THEN <<n>>
    ELSE IF n <= 255 THEN <<129, n>>
    ELSE <<130, n \div 256, n % 256>>

\* C8: when every exchange of a load succeeded, the data fields of its LOAD
\* commands, joined in sending order, are C4, the BER length of the payload
\* and the payload bytes in order, for every payload length and every chunk
\* hint list, applied to the head or to the tail or absent.
C8_ChunksCarryTheBlock ==
    (call.op = "load_cap" /\ call.result = "ok")
    => (/\ \A i \in 2..Len(call.sent) : IsLoad(call.sent[i].input)
        /\ LoadData(call.sent)
              = <<196>> \o BerLength(call.arg.n) \o Payload(call.arg.n))

\* C8 witness: 256 bytes loaded with the hints 7, 100 applied to the tail
C8_Witness ==
    /\ call.op = "load_cap"
    /\ call.result = "ok"
    /\ call.arg.n = 256
    /\ call.arg.chunk_sizes = <<7, 100>>
    /\ ~call.arg.head
    /\ Len(call.sent) = 5

\* C9: in a load that went through, the k-th LOAD command (k from 0) has
\* P2 = k mod 256 and P1 = 80 exactly when it is the last one.
C9_BlockNumberWraps ==
    (call.op = "load_cap" /\ call.result = "ok")
    => \A k \in 0..(Len(call.sent) - 2) :
          /\ call.sent[k + 2].input[4] = k % 256
          /\ call.sent[k + 2].input[3] = (IF k = Len(call.sent) - 2 THEN 128 ELSE 0)

\* C10: a LOAD is sent only after INSTALL [for load] and every LOAD before
\* it returned 90 00; a load in which some command got another status
\* returns failure and that command is its last one.
C10_LoadStopsAtFirstError ==
    call.op = "load_cap"
    => (/\ \A i \in 1..Len(call.sent) :
              IsLoad(call.sent[i].input)
              => (/\ i > 1
                  /\ IsInstallForLoad(call.sent[1].input)
                  /\ \A j \in 1..(i - 1) : call.sent[j].sw = SW_OK)
        /\ \A i \in 1..Len(call.sent) :
              call.sent[i].sw \notin {SW_OK, SW_RAISE}
              => (call.result = "fail" /\ i = Len(call.sent))
        /\ call.result = "ok" => \A i \in 1..Len(call.sent) : call.sent[i].sw = SW_OK)

\* C10 witness: the second of three LOAD commands was refused
C10_Witness ==
    /\ call.op = "load_cap"
    /\ call.result = "fail"
    /\ call.arg.n >= 250
    /\ call.arg.chunk_sizes = <<>>
    /\ Len(call.sent) = 3
    /\ call.sent[2].sw = SW_OK
    /\ call.sent[3].sw = SW_COND

\* the default order of the components as the specification lists it
DocumentedOrder ==
    <<"header", "directory", "import", "applet", "class", "method", "staticfield",
      "export", "constantpool", "reflocation", "staticresources", "descriptor">>

\* a file of a standard component: its name and .cap or .capx
IsStandardFile(file) ==
    Len(file) = 2 /\ file[1] \in Range(DocumentedOrder) /\ file[2] \in {".cap", ".capx"}

\* the archive has the compact or the extended file of a component
InArchive(components, atom) ==
    <<atom, ".cap">> \in Range(components) \/ <<atom, ".capx">> \in Range(components)

\* the file that is sent for a component: the compact one if there is one
FileOf(components, atom) ==
    IF <<atom, ".cap">> \in Range(components) THEN <<atom, ".cap">> ELSE <<atom, ".capx">>

Reordered == call.op = "_get_reordered_components"

\* C11: with no order hints the standard components of the result are the
\* components of the archive in the order header, directory, import, applet,
\* class, method, staticfield, export, constantpool, reflocation,
\* staticresources, descriptor; no debug component is in the result
C11_DefaultOrder ==
    (Reordered /\ call.arg.components_order = <<>>) =>
        /\ SelectSeq(call.result, IsStandardFile)
             = [i \in 1..Len(SelectSeq(DocumentedOrder,
                                       LAMBDA a : InArchive(call.arg.components, a))) |->
                   FileOf(call.arg.components,
                          SelectSeq(DocumentedOrder,
                                    LAMBDA a : InArchive(call.arg.components, a))[i])]
        /\ \A i \in 1..Len(call.result) :
              call.result[i] \notin {<<"debug", ".cap">>, <<"debug", ".capx">>}

\* the whole archive, debug components included, in the default order
C11_Witness ==
    /\ Reordered
    /\ call.arg.components = FullArchive
    /\ call.arg.components_order = <<>>
    /\ Len(SelectSeq(call.result, IsStandardFile)) = 12

\* the hinted names, each once, that have a file in the archive
HintedFiles(components, names) ==
    [i \in 1..Len(SelectSeq(names, LAMBDA n : get_component(components, n) # None)) |->
        get_component(components,
                      SelectSeq(names, LAMBDA n : get_component(components, n) # None)[i])]

\* the standard components of the archive that no hint names, in default order
OtherFiles(components, names) ==
    [i \in 1..Len(SelectSeq(DocumentedOrder,
                            LAMBDA a : InArchive(components, a) /\ <<a>> \notin Range(names))) |->
        FileOf(components,
               SelectSeq(DocumentedOrder,
                         LAMBDA a : InArchive(components, a) /\ <<a>> \notin Range(names))[i])]

\* the custom components of the archive that no hint names, in archive order
CustomFiles(components, names) ==
    SelectSeq(components,
              LAMBDA f : /\ ~IsStandardFile(f)
                         /\ f[1] # "debug"
                         /\ SubSeq(f, 1, Len(f) - 1) \notin Range(names)
                         /\ SubSeq(f, 1, Len(f) - 1) \notin Range(Names(DocumentedOrder)))

\* C12: with order hints, head mode sends the hinted components first and
\* tail mode sends them after the other standard components, in the hinted
\* order; the other standard components keep the default order; the custom
\* components that no list names come at the end
C12_HintedOrder ==
    (Reordered /\ call.arg.components_order # <<>>) =>
        call.result
          = IF call.arg.head
            THEN HintedFiles(call.arg.components,
                             fromkeys(requested_order(call.arg.components_order)))
                 \o OtherFiles(call.arg.components,
                               requested_order(call.arg.components_order))
                 \o CustomFiles(call.arg.components,
                                requested_order(call.arg.components_order))
            ELSE OtherFiles(call.arg.components,
                            requested_order(call.arg.components_order))
                 \o HintedFiles(call.arg.components,
                                fromkeys(requested_order(call.arg.components_order)))
                 \o CustomFiles(call.arg.components,
                                requested_order(call.arg.components_order))

\* a load that went through: INSTALL [for load], then the LOAD commands
LoadDone == call.op = "load_cap" /\ call.result = "ok"

\* the number of LOAD commands of the load and the data bytes of the i-th
LoadCount == Len(call.sent) - 1

LoadLenAt(i) == Len(call.sent[i + 1].input) - 5

\* the length of C4, the BER length and the payload
BlockLen == 1 + Len(BerLength(call.arg.n)) + call.arg.n

\* the leading hints that fit one after the other
FittingHints(sizes, len) ==
    Cardinality({ k \in 1..Len(sizes) : \A j \in 1..k : SumOf(sizes, 1, j) <= len })

\* C13: with chunk hints h1..hN for the tail whose sum is at most the length
\* of the block, the last N LOAD commands carry h1, ..., hN data bytes in
\* that order, the commands before them carry 100 bytes each except that the
\* first may carry fewer, the last LOAD has P1 = 80, and P2 is the index
C13_TailHints ==
    (/\ LoadDone
     /\ call.arg.chunk_sizes # <<>>
     /\ ~call.arg.head
     /\ SumOf(call.arg.chunk_sizes, 1, Len(call.arg.chunk_sizes)) <= BlockLen)
    => (/\ LoadCount >= Len(call.arg.chunk_sizes)
        /\ \A j \in 1..Len(call.arg.chunk_sizes) :
              LoadLenAt(LoadCount - Len(call.arg.chunk_sizes) + j) = call.arg.chunk_sizes[j]
        /\ \A i \in 1..(LoadCount - Len(call.arg.chunk_sizes)) :
              /\ LoadLenAt(i) >= 1
              /\ LoadLenAt(i) <= 100
              /\ i > 1 => LoadLenAt(i) = 100
        /\ \A i \in 1..LoadCount :
              /\ call.sent[i + 1].input[4] = i - 1
              /\ call.sent[i + 1].input[5] = LoadLenAt(i)
              /\ call.sent[i + 1].input[3] = (IF i = LoadCount THEN 128 ELSE 0))

\* C13 witness: the hints 7, 5 for the tail of a block of 200 bytes give
\* LOAD commands of 88, 100, 7 and 5 bytes
C13_Witness ==
    /\ LoadDone
    /\ BlockLen = 200
    /\ call.arg.chunk_sizes = <<7, 5>>
    /\ ~call.arg.head
    /\ LoadCount = 4
    /\ LoadLenAt(1) = 88
    /\ call.sent[5].input[3] = 128
    /\ call.sent[5].input[4] = 3

\* C14: with chunk hints for the head the leading LOAD commands carry the
\* hinted sizes in order up to the first hint larger than what remains; the
\* hints from that one on are ignored and what remains goes in chunks of 100
\* bytes, the last of which may be shorter; with no hints every chunk but
\* the last has 100 bytes
C14_HeadHints ==
    (LoadDone /\ call.arg.head)
    => LET k == FittingHints(call.arg.chunk_sizes, BlockLen)
           rest == BlockLen - SumOf(call.arg.chunk_sizes, 1, k)
       IN  /\ LoadCount = k + (rest + 99) \div 100
           /\ \A j \in 1..k : LoadLenAt(j) = call.arg.chunk_sizes[j]
           /\ \A i \in (k + 1)..LoadCount :
                 LoadLenAt(i) = (IF i < LoadCount THEN 100 ELSE rest - 100 * (i - k - 1))

\* C14 witness: the first hint is larger than a block of 200 bytes, so the
\* second hint is ignored and the block goes in two chunks of 100 bytes
C14_Witness ==
    /\ LoadDone
    /\ call.arg.head
    /\ BlockLen = 200
    /\ call.arg.chunk_sizes = <<256, 7>>
    /\ LoadCount = 2

\* the call of the reader ended: it returned or it raised
ReaderDone == call.pc \in {"returned", "raised"}

\* the first response was 6C xx and the reader corrects Le
LeCorrected ==
    /\ call.op = "CardReader.send_apdu"
    /\ call.arg.auto_correct_le
    /\ Len(call.sent) >= 2
    /\ call.sent[1].sw[1] = 108

\* the exchange whose response data the returned data starts with
FirstKept == IF LeCorrected THEN 2 ELSE 1

\* what the reader has done so far follows the 61 xx policy
GetResponsePolicy ==
    (call.op = "CardReader.send_apdu" /\ call.arg.auto_get_response)
    => (/\ \A i \in (FirstKept + 1)..Len(call.sent) :
              /\ call.sent[i - 1].sw[1] = 97
              /\ call.sent[i].command = <<0, 192, 0, 0, call.sent[i - 1].sw[2]>>
        /\ call.pc = "returned"
           => (/\ call.result.sw[1] # 97
               /\ call.result.sw = call.sent[Len(call.sent)].sw
               /\ call.result.resp_data
                    = Concat([i \in 1..Len(call.sent) |-> call.sent[i].data],
                             FirstKept, Len(call.sent))))

\* C15: with automatic GET RESPONSE the reader answers every 61 xx with
\* 00 C0 00 00 xx, xx being the sw2 just received, returns the data of the
\* responses joined in order of arrival with the last status, never returns
\* a status 61 xx, and its call ends once the card stops answering 61 xx
C15_GetResponse == [](GetResponsePolicy) /\ <>(ReaderDone)

\* C15 witness: two 61 xx answers with data, then 90 00 with data
C15_Witness ==
    /\ call.op = "CardReader.send_apdu"
    /\ call.pc = "returned"
    /\ call.arg.auto_get_response
    /\ Len(call.sent) = 3
    /\ call.sent[1].sw = <<97, 5>>
    /\ call.sent[2].sw = <<97, 16>>
    /\ call.result = [resp_data |-> <<17, 34, 51, 17>>, sw |-> SW_OK]

\* header and data field of a command: 4 bytes, or 5 + Lc bytes when the
\* command is longer than 5 bytes
BodyLen(command) == IF Len(command) <= 5 THEN 4 ELSE 5 + command[5]

\* C16: after a first response 6C xx the command is sent once more with
\* Le = xx, its header and its data bytes (a MAC included) unchanged, and
\* every later command is a GET RESPONSE
C16_LeCorrection ==
    LeCorrected
    => (/\ Take(call.sent[2].command, BodyLen(call.arg.command))
             = Take(call.arg.command, BodyLen(call.arg.command))
        /\ call.sent[2].command[Len(call.sent[2].command)] = call.sent[1].sw[2]
        /\ \A i \in 3..Len(call.sent) : Take(call.sent[i].command, 4) = <<0, 192, 0, 0>>)

\* the last call of the counter model handed one command, not a SELECT, to
\* an engine that was authenticated and had met no SELECT
CountedCommand ==
    /\ call.op \in {"send_apdu", "delete_content"}
    /\ "wrapped" \in DOMAIN call
    /\ Len(call.sent) = 1
    /\ call.sent[1].auth
    /\ ~IsSelect(call.sent[1].input)

\* C17: on an SCP03 session, with no SELECT since EXTERNAL AUTHENTICATE, the
\* k-th command handed to send_secure_apdu is wrapped with the encryption
\* counter equal to k (the IV of its encrypted data, if it has any), whether
\* it carries data or not, and leaves the counter at k + 1
C17_CounterIsCommandNumber ==
    CountedCommand
    => (/\ call.arg.counter = call.wrapped
        /\ call.sent[1].wire.body.sym = "enc" => call.sent[1].wire.body.iv = call.wrapped
        /\ scp.encryption_counter = call.wrapped + 1)

\* C17 witness: the third command is encrypted with counter 3 after two
\* commands that carried no data
C17_Witness ==
    /\ CountedCommand
    /\ call.wrapped = 3
    /\ call.sent[1].wire.body.sym = "enc"
    /\ call.sent[1].wire.body.iv = 3
    /\ call.arg.apdu = <<128, 226, 144, 0, 6, 1, 2, 3, 4, 5, 6>>

\* C18: on an SCP03 session with no SELECT since EXTERNAL AUTHENTICATE, the
\* encryption counter has advanced by one for every command the reader
\* transmitted, whatever status the card gave, and not for a command on
\* which the reader failed
C18_CounterCountsTransmitted ==
    ("wrapped" \in DOMAIN call /\ ghost /\ scp.is_mutually_authenticated)
    => scp.encryption_counter = 1 + call.delivered

\* the exchanges of a call whose command carries a MAC
Maced(sent) == { i \in 1..Len(sent) : sent[i].wire.mac # NoMac }

\* C19: a SELECT that went through the secure channel leaves the engine
\* with the initial chain state (SCP02: no previous MAC, SCP03: the zero
\* chain), the chain stays so while no MAC is computed, and the first MAC
\* computed from there is chained on nothing but its own command
C19_MacChainRestarts ==
    [][ /\ SelectThroughSession' => EmptyChain(scp')
        /\ EmptyChain(scp)
           => IF Maced(call'.sent) = {}
              THEN EmptyChain(scp')
              ELSE \A i \in Maced(call'.sent) :
                      (\A j \in Maced(call'.sent) : i <= j)
                      => Len(call'.sent[i].wire.mac.chain) = 1 ]_vars

\* C19 witness: a SELECT went through a session that had chained a MAC, and
\* the chain is back to its initial state
C19_Witness ==
    /\ SelectThroughSession
    /\ call.sent[1].level # SCP_SECLEVEL_NO_SECURITY_LEVEL
    /\ EmptyChain(scp)

\* INITIALIZE UPDATE (80 50) was sent by the call
Probed == \E i \in 1..Len(call.sent) : call.sent[i].input[2] = 80

\* the keys of Key Information that have key_id 01 and an AES component
AesKeys01 ==
    { i \in 1..Len(card.keys) :
         /\ card.keys[i].key_id = 1
         /\ \E j \in 1..Len(card.keys[i].components) :
               card.keys[i].components[j].type = "AES" }

\* the length of the first AES component of key i
AesLength(i) ==
    LET comps == card.keys[i].components
        j == CHOOSE j \in 1..Len(comps) :
                /\ comps[j].type = "AES"
                /\ \A k \in 1..(j - 1) : comps[k].type # "AES"
    IN  comps[j].length

\* C20: when Card Recognition Data holds an OID for SCP02 only, whatever its
\* i (0 included), the decision is SCP02 with that i and key length 16; when
\* it holds an OID for SCP03 only, whatever its i (0 included), and Key
\* Information has an AES key of key_id 01, the decision is SCP03 with that i
\* and the length of the first such key; in both cases no INITIALIZE UPDATE
\* is sent to probe the card
C20_SingleProtocolDecision ==
    call.op = "determineSCPAndKeyLength"
    => /\ (card.crd02 # NoI /\ card.crd03 = NoI)
          => /\ call.result = Decision("SCP02", card.crd02, 16)
             /\ ~Probed
       /\ (card.crd03 # NoI /\ card.crd02 = NoI /\ AesKeys01 # {})
          => /\ call.result
                = Decision("SCP03", card.crd03,
                           AesLength(CHOOSE i \in AesKeys01 : \A j \in AesKeys01 : i <= j))
             /\ ~Probed

\* the keys of Key Information with key_id 01, or with another key_id, that
\* have a component of the type
KeysOfType(id01, type) ==
    { i \in 1..Len(card.keys) :
         /\ (card.keys[i].key_id = 1) = id01
         /\ \E j \in 1..Len(card.keys[i].components) :
               card.keys[i].components[j].type = type }

\* both OIDs are in Card Recognition Data, with i parameters other than 0
BothProtocols ==
    /\ card.crd02 \notin {NoI, 0}
    /\ card.crd03 \notin {NoI, 0}

\* C21: when Card Recognition Data lists SCP02 and SCP03, an AES key with
\* key_id 01 anywhere in Key Information gives SCP03, even behind a DES key
\* with key_id 01; without one, a DES key with key_id 01 gives SCP02; without
\* either, the keys with other key_ids decide in the same way, and the card
\* is probed only when they do not decide either
C21_BothProtocolsDecision ==
    (call.op = "determineSCPAndKeyLength" /\ BothProtocols)
    => IF KeysOfType(TRUE, "AES") # {}
       THEN call.result.proto = "SCP03" /\ call.result.i_param = card.crd03 /\ ~Probed
       ELSE IF KeysOfType(TRUE, "DES") # {}
       THEN call.result.proto = "SCP02" /\ call.result.i_param = card.crd02 /\ ~Probed
       ELSE IF KeysOfType(FALSE, "AES") # {}
       THEN call.result.proto = "SCP03" /\ call.result.i_param = card.crd03 /\ ~Probed
       ELSE IF KeysOfType(FALSE, "DES") # {}
       THEN call.result.proto = "SCP02" /\ call.result.i_param = card.crd02 /\ ~Probed
       ELSE Probed

\* the Key Information entries with key_id 01 whose key version is the one
\* the card gave in its answer to the probe (that of its first key)
ProbedKeys ==
    { i \in 1..Len(card.keys) :
         /\ card.keys[i].key_id = 1
         /\ card.keys[i].key_version = card.keys[1].key_version }

\* C22: when Card Recognition Data and Key Information decide nothing, the
\* third command is INITIALIZE UPDATE with 8 zero bytes, followed by one with
\* 16 zero bytes exactly when it was answered 67 00; a last status other than
\* 90 00 gives no protocol; on 90 00 protocol byte 02 gives SCP02, and
\* protocol byte 03 gives SCP03 with the length of the key of key_id 01
\* whose key version is the one of the response, when there is such a key
C22_ActiveProbe ==
    (call.op = "determineSCPAndKeyLength" /\ Probed)
    => LET r == call.arg[1]
       IN  /\ call.sent[3].input = ProbeApdu(8)
           /\ (Len(call.sent) = 4) = (call.sent[3].sw = SW_WRONG_LEN)
           /\ Len(call.sent) = 4 => call.sent[4].input = ProbeApdu(16)
           /\ r.sw # SW_OK => call.result.proto = "NONE"
           /\ (r.sw = SW_OK /\ ~r.short /\ r.proto = 2) => call.result.proto = "SCP02"
           /\ (r.sw = SW_OK /\ ~r.short /\ r.proto = 3 /\ ProbedKeys # {})
              => /\ call.result.proto = "SCP03"
                 /\ \E i \in ProbedKeys :
                       call.result.keylength = card.keys[i].components[1].length

\* the card of the sample: only the OID ending 03 70 and an AES-128 key with
\* key_id 1 and key version 30
SampleCard ==
    /\ card.crd02 = NoI
    /\ card.crd03 = 112
    /\ card.keys = <<KeyEntry(1, 48, "AES", 16)>>

\* mutual_auth created an engine and had it send INITIALIZE UPDATE
EngineStarted ==
    /\ call.op = "mutual_auth"
    /\ \E i \in 1..Len(call.sent) : call.sent[i].kind = "engine"

\* the engine mutual_auth made for the sample card
SampleDecision(challenges_len) ==
    (SampleCard /\ EngineStarted)
    => /\ scp.proto = "SCP03"
       /\ scp.i_param = 112
       /\ scp.static_enc.len = 16
       /\ scp.challenges_len = challenges_len

\* C23: for the card that announces only the OID ending 03 70 and has an
\* AES-128 key with key_id 1 and key version 30, the agent creates an SCP03
\* engine with i = 70 and 16-byte keys, and that engine uses challenge
\* length 8, bit 0 of 70 being clear
C23_SampleDecision == SampleDecision(8)

\* C23 witness: the sample card was authenticated
C23_Witness == SampleCard /\ EngineStarted /\ agent.is_mutually_authenticated

\* C23 as stated: the engine uses challenge length 16
C23_AsStated == SampleDecision(16)

\* C24: the SCP03 engine mutual_auth creates for a card that announces SCP03
\* only and an AES key of key_id 01 and length L (16, 24 or 32) holds ENC,
\* MAC and DEK keys of length L, each the supplied 16-byte key repeated
C24_KeysOfRequiredLength ==
    (call.op = "mutual_auth" /\ scp.proto = "SCP03"
        /\ card.crd02 = NoI /\ card.crd03 # 0 /\ AesKeys01 # {})
    => LET L == AesLength(CHOOSE i \in AesKeys01 : \A j \in AesKeys01 : i <= j)
       IN  /\ scp.static_enc = StaticKey(settings.key, L)
           /\ scp.static_mac = StaticKey(settings.key, L)
           /\ scp.static_dek = StaticKey(settings.key, L)

RECURSIVE Fields(_)
\* the fields of a data field made of length-value pairs, each length one
\* byte; a data field that is not made so has no such reading
Fields(data) ==
    IF data = <<>> THEN <<>>
    ELSE IF Len(data) < 1 + data[1] THEN <<<<-1>>>>
    ELSE <<SubSeq(data, 2, 1 + data[1])>> \o Fields(SubSeq(data, 2 + data[1], Len(data)))

\* the first command of the last call, as the agent built it
Built == call.sent[1].input

NextKind(p1) == IF p1 = 128 THEN 64 ELSE 16

\* the data items of the answers, in the order of the commands, to the GET
\* STATUS commands whose P1 is in kinds
Answered(kinds) ==
    LET sent == call.sent
        Item(i) == <<sent[i].input[3],
                     Cardinality({ j \in 1..i : sent[j].input[3] = sent[i].input[3] })>>
        Carried == { i \in 1..Len(sent) :
                        sent[i].input[3] \in kinds /\ sent[i].sw \in {SW_OK, SW_MORE} }
        Nth(n) == CHOOSE i \in Carried : Cardinality({ j \in Carried : j <= i }) = n
    IN  [n \in 1..Cardinality(Carried) |-> Item(Nth(n))]

\* C26: list_content sends GET STATUS for P1 = 80, then 40, then 10; the
\* first command of each P1 has P2 = 02 (00 in the deprecated format); after
\* a status 63 10 the next command has the same P1 and P2 = 03 (01); after
\* any other status the next command starts the next P1, and there is none
\* after P1 = 10; the decoder is given the ISD data followed by the
\* application data, and the package data, each in the order received
C26_GetStatusSequence ==
    (call.op = "list_content" /\ call.sent # <<>>)
    => LET sent == call.sent
           first == IF call.arg.deprecated THEN 0 ELSE 2
           P1(i) == sent[i].input[3]
           P2(i) == sent[i].input[4]
       IN  /\ \A i \in 1..Len(sent) :
                 sent[i].input = <<128, 242, P1(i), P2(i), 2, 79, 0>>
           /\ P1(1) = 128 /\ P2(1) = first
           /\ \A i \in 1..(Len(sent) - 1) :
                 IF sent[i].sw = SW_MORE
                 THEN P1(i + 1) = P1(i) /\ P2(i + 1) = first + 1
                 ELSE P1(i) # 16 /\ P1(i + 1) = NextKind(P1(i)) /\ P2(i + 1) = first
           /\ P1(Len(sent)) = 16 /\ sent[Len(sent)].sw # SW_MORE
           /\ call.arg.decoded = <<Answered({128, 64}), Answered({16})>>

\* C26 witness: every kind of GET STATUS was answered 63 10 twice, so that
\* nine commands were sent
C26_Witness ==
    /\ call.op = "list_content"
    /\ Len(call.sent) = 9
    /\ Len(call.arg.decoded[1]) = 6
    /\ Len(call.arg.decoded[2]) = 3

\* the label of the life-cycle byte v of an application, by its bits
ApplicationLabel(v) ==
    IF v = 3 THEN "INSTALLED"
    ELSE IF v = 7 THEN "SELECTABLE"
    ELSE IF v = 15 THEN "PERSONALIZED"
    ELSE IF HasBit(v, 1) /\ HasBit(v, 2) /\ ~HasBit(v, 128) THEN "APP-SPECIFIC"
    ELSE IF HasBit(v, 1) /\ HasBit(v, 2) /\ HasBit(v, 128) THEN "LOCKED"
    ELSE "UNKNOWN"

\* C27: for every life-cycle byte the decoder labels an application
\* INSTALLED for 03, SELECTABLE for 07, PERSONALIZED for 0F, otherwise
\* APP-SPECIFIC when bits 0 and 1 are set and bit 7 is clear, otherwise
\* LOCKED when bits 0, 1 and 7 are set, otherwise UNKNOWN; it labels a
\* package LOADED for 01 and UNKNOWN otherwise; the label is always one of
\* these
C27_LifeCycleLabels ==
    call.op = "_get_life_cycle_str"
    => /\ call.result
          = IF call.arg[2] = COMPONENT_TYPE_APP THEN ApplicationLabel(call.arg[1])
            ELSE IF call.arg[1] = 1 THEN "LOADED" ELSE "UNKNOWN"
       /\ call.result \in {"INSTALLED", "SELECTABLE", "PERSONALIZED", "APP-SPECIFIC",
                           "LOCKED", "LOADED", "UNKNOWN"}

\* C27 witness: the application byte 87 was labelled LOCKED
C27_Witness ==
    /\ call.op = "_get_life_cycle_str"
    /\ call.arg = <<135, COMPONENT_TYPE_APP>>
    /\ call.result = "LOCKED"

\* the record of the sample: E3 1B, 4F 07 A0000000030000, 9F70 01 07,
\* C5 02 9E80, C4 08 A000000151000000
SampleRecord ==
    <<227, 27, 79, 7, 160, 0, 0, 0, 3, 0, 0, 159, 112, 1, 7, 197, 2, 158, 128,
      196, 8, 160, 0, 0, 1, 81, 0, 0, 0>>

\* the sample record was decoded, alone, into the entry with these privileges
SampleDecoded(privileges) ==
    (call.op = "get_parsed_gp_registry_info" /\ call.arg[1] = SampleRecord
        /\ ~call.result.raised)
    => call.result.applications
       = << << <<160, 0, 0, 0, 3, 0, 0>>, "SELECTABLE", privileges,
               <<160, 0, 0, 1, 81, 0, 0, 0>> >> >>

\* C28: the modern-form record with AID A0000000030000, life-cycle byte 07,
\* privilege bytes 9E 80 and associated package A000000151000000 is decoded
\* into that AID, SELECTABLE, that package, and the privileges of every bit
\* set in 9E 80: Security Domain, Card Lock, Card Terminate, Card Reset and
\* CVM Management of the first byte, Trusted Path of the second
C28_SampleRecord ==
    SampleDecoded(<<"Security Domain", "Card Lock", "Card Terminate", "Card Reset",
                    "CVM Management", "Trusted Path">>)

\* C28 witness: the sample record was decoded
C28_Witness ==
    /\ call.op = "get_parsed_gp_registry_info"
    /\ call.arg[1] = SampleRecord
    /\ ~call.result.raised
    /\ Len(call.result.applications) = 1

\* C28 as stated: the privileges are Security Domain and Trusted Path only
C28_AsStated == SampleDecoded(<<"Security Domain", "Trusted Path">>)

\* C29: after reset_card, whether the reader connected again or not, and
\* after a disconnect, the agent of the facade is not marked authenticated,
\* and a content-management call that comes next is refused without a
\* command being sent
C29_UnauthenticatedAfterReset ==
    [][ /\ call'.op \in {"reset_card", "disconnect"}
           => ~agent'.is_mutually_authenticated
        /\ (call.op \in {"reset_card", "disconnect"} /\ call'.op = "delete_content")
           => (call'.result = "fail" /\ call'.sent = <<>>) ]_vars

\* the INITIALIZE UPDATE commands an SCP03 engine sent in the last call
SCP03InitUpdates ==
    IF call.op = "mutual_auth" /\ scp.proto = "SCP03"
    THEN { i \in 1..Len(call.sent) : call.sent[i].kind = "engine" /\ IsInitUpdate(call.sent[i]) }
    ELSE {}

\* C30: the INITIALIZE UPDATE of an SCP03 engine is 80 50 00 00 len followed
\* by a host challenge of len bytes, len being 16 when bit 0 of the i
\* parameter is set and 8 otherwise, and the host challenge is drawn anew
\* for the call: it is not the value AC0C5EFFBFC1E314 fixed in the program
C30_InitializeUpdate ==
    \A i \in SCP03InitUpdates :
        LET len == IF HasBit(scp.i_param, 1) THEN 16 ELSE 8
            command == call.sent[i].input
        IN  /\ Take(command, 5) = <<128, 80, 0, 0, len>>
            /\ Len(command) = 5 + len
            /\ Drop(command, 5) # <<172, 12, 94, 255, 191, 193, 227, 20>>

\* the exchanges of the last call in which a command with a data field went
\* through an SCP02 engine at C-MAC + C-DECRYPTION
SCP02Encrypting ==
    IF scp.proto = "SCP02"
    THEN { i \in 1..Len(call.sent) :
             /\ call.sent[i].kind = "secure"
             /\ call.sent[i].level = SCP_SECLEVEL_C_MAC + SCP_SECLEVEL_C_DECRYPTION
             /\ ~IsSelect(call.sent[i].input)
             /\ Len(call.sent[i].input) > 5 }
    ELSE {}

\* C31: in an SCP02 session at C-MAC + C-DECRYPTION every command with a
\* data field is transmitted as CLA|0x04 INS P1 P2 Lc' followed by the
\* 3DES-CBC ciphertext (zero IV, session ENC key) of the 80-padded data and
\* the 8-byte MAC, Lc' being the ciphertext length plus 8, and an operation
\* that builds such a command (INSTALL, DELETE, GET STATUS with Lc = 2) never
\* fails before it has transmitted one
C31_SCP02EncryptsEveryDataField ==
    /\ \A i \in SCP02Encrypting :
          LET command == call.sent[i].input
              enc == EncBody(Drop(command, 5), scp.session_enc, 0, SCP02_BLOCK)
              w == call.sent[i].wire
          IN  /\ w.hdr = <<Or4(command[1]), command[2], command[3], command[4],
                           enc.size + SCP02_MAC_LEN>>
              /\ w.body = enc
              /\ w.mac.size = SCP02_MAC_LEN
    /\ (/\ call.op \in {"install_applet", "delete_content", "list_content"}
        /\ scp.proto = "SCP02"
        /\ scp.sec_level = SCP_SECLEVEL_C_MAC + SCP_SECLEVEL_C_DECRYPTION
        /\ agent.is_mutually_authenticated)
       => call.sent # <<>>

\* the exchanges of the last call whose data field an SCP03 engine encrypted
SCP03Encrypted ==
    IF scp.proto = "SCP03"
    THEN { i \in 1..Len(call.sent) :
             call.sent[i].kind = "secure" /\ call.sent[i].wire.body.sym = "enc" }
    ELSE {}

\* C32: when an SCP03 engine at a level with C-DECRYPTION encrypts the data
\* of a command, the IV of the CBC encryption is the 16-byte counter block
\* encrypted under the session ENC key, not the counter block itself
C32_IvIsEncryptedCounter ==
    \A i \in SCP03Encrypted :
        LET body == call.sent[i].wire.body
        IN  /\ HasBit(call.sent[i].level, SCP_SECLEVEL_C_DECRYPTION)
            /\ body.ivkey # NoKey
            /\ body.ivkey = body.key
            /\ body.iv >= 1

\* seq continues old: old is its beginning
Continues(seq, old) == Len(seq) >= Len(old) /\ Take(seq, Len(old)) = old

\* a call that resets the session: a handshake, or a SELECT through the engine
Resets(c) == c.op = "mutual_auth" \/ (c.op = "send_apdu" /\ IsSelect(c.arg.apdu))

\* C33: in an SCP02 session the first MAC computed after INITIALIZE UPDATE
\* is the one of EXTERNAL AUTHENTICATE and starts from the zero IV; every
\* later MAC starts from the previous MAC encrypted with single DES under
\* the first 8 bytes of the session MAC key; every MAC sent is the last of
\* the chain at that moment and is the MAC of its own command; and a call that does not reset the session
\* adds one MAC to the chain per MAC computation and changes it in no other
\* way (a call that fails after computing a MAC has computed one more than
\* it sent)
C33_SCP02MacChaining ==
    [][ scp'.proto = "SCP02"
        => /\ \A k \in 1..Len(scp'.last_mac) :
                 /\ scp'.last_mac[k].key = scp'.session_mac
                 /\ scp'.last_mac[k].iv =
                        IF k = 1 THEN ZeroIv
                        ELSE [sym |-> "des", key |-> scp'.session_mac, part |-> 8]
           /\ scp'.last_mac # <<>> => Take(scp'.last_mac[1].hdr, 2) = <<132, 130>>
           /\ ~Resets(call')
              => /\ Continues(scp'.last_mac, scp.last_mac)
                 /\ \A i \in Maced(call'.sent) :
                       /\ Continues(call'.sent[i].wire.mac.chain, scp.last_mac)
                       /\ Continues(scp'.last_mac, call'.sent[i].wire.mac.chain)
                       /\ LET last == call'.sent[i].wire.mac.chain[
                                           Len(call'.sent[i].wire.mac.chain)]
                          IN  /\ Take(last.hdr, 4) = Take(call'.sent[i].wire.hdr, 4)
                              /\ last.body = PlainBody(Drop(call'.sent[i].input, 5))
                 /\ LET sent == Cardinality(Maced(call'.sent))
                        added == Len(scp'.last_mac) - Len(scp.last_mac)
                    IN  IF call'.result = "raise"
                        THEN added \in {sent, sent + 1}
                        ELSE added = sent ]_vars

\* C33 witness: an SCP02 session has chained three MACs, the last two in one
\* content operation
C33_Witness ==
    /\ scp.proto = "SCP02"
    /\ Len(scp.last_mac) >= 3
    /\ call.op \in ContentOps
    /\ Cardinality(Maced(call.sent)) >= 2

\* C34: in an SCP03 session the chain is empty (sixteen zero bytes) after
\* INITIALIZE UPDATE, so the MAC of EXTERNAL AUTHENTICATE is the first of
\* the chain; every MAC computation puts in the chain the whole 16-byte
\* CMAC, under the session MAC key, of the chain before it followed by the
\* secure header with Lc = data length + mac_len and the data as sent
\* (encrypted if it was encrypted), and the command carries the first
\* mac_len bytes of it; a call that does not reset the session adds exactly
\* one chaining value per MAC sent
C34_SCP03MacChaining ==
    [][ scp'.proto = "SCP03"
        => /\ \A k \in 1..Len(scp'.mac_chain) :
                 /\ scp'.mac_chain[k].key = scp'.session_mac
                 /\ scp'.mac_chain[k].kept = 16
           /\ scp'.mac_chain # <<>> => Take(scp'.mac_chain[1].hdr, 2) = <<132, 130>>
           /\ ~Resets(call')
              => /\ Continues(scp'.mac_chain, scp.mac_chain)
                 /\ Len(scp'.mac_chain) - Len(scp.mac_chain) = Cardinality(Maced(call'.sent))
                 /\ \A i \in Maced(call'.sent) :
                       LET w == call'.sent[i].wire
                           last == w.mac.chain[Len(w.mac.chain)]
                       IN  /\ Continues(w.mac.chain, scp.mac_chain)
                           /\ Continues(scp'.mac_chain, w.mac.chain)
                           /\ w.mac.size = scp'.mac_len
                           /\ w.hdr[5] = w.body.size + scp'.mac_len
                           /\ last.hdr = w.hdr
                           /\ last.body = w.body ]_vars

\* C34 witness: an SCP03 session with 8-byte MACs has chained three values,
\* the last two in one content operation, over encrypted data
C34_Witness ==
    /\ scp.proto = "SCP03"
    /\ scp.mac_len = 8
    /\ Len(scp.mac_chain) >= 3
    /\ call.op \in ContentOps
    /\ Cardinality(Maced(call.sent)) >= 2
    /\ \E i \in Maced(call.sent) : call.sent[i].wire.body.sym = "enc"

\* the commands other than GET RESPONSE the card received in the last call
WireCommands == { j \in 1..Len(call.wire) : call.wire[j].kind # "get_response" }

\* C35: in a session whose security level includes C-MAC, every command
\* other than GET RESPONSE the card receives is a wrapped command with the
\* bytes the engine built, its MAC is the last of the chain and was computed
\* over the header and data of that command, and the chain has advanced by
\* one per command received: the reader sends no altered copy and no second
\* copy of a wrapped command
C35_EveryCommandIsWrappedOnce ==
    (call.op \in {"send_apdu", "delete_content"}
     /\ HasBit(call.arg.level, SCP_SECLEVEL_C_MAC))
    => /\ \A j \in WireCommands :
             LET w == call.wire[j].wire
                 sent == call.sent[1]
             IN  /\ w.mac # NoMac
                 /\ call.wire[j].last = <<>>
                 /\ w.mac.chain = scp.last_mac \o scp.mac_chain
                 /\ LET last == w.mac.chain[Len(w.mac.chain)]
                    IN  /\ Take(last.hdr, 4) = Take(w.hdr, 4)
                        /\ last.body \in {w.body, PlainBody(Drop(sent.input, 5))}
       /\ Len(scp.last_mac) + Len(scp.mac_chain)
              = call.arg.chained + Cardinality(WireCommands)

\* how many times x occurs in seq
Occurrences(seq, x) == Cardinality({ i \in 1..Len(seq) : seq[i] = x })

\* C36: whatever the archive, the order hints and their mode, the list
\* _get_reordered_components returns is a permutation of the non-debug
\* components of the archive: each of them occurs in it exactly once and
\* nothing else does, also when the name of a custom component starts with
\* the name of a standard one
C36_LoadIsAPermutation ==
    call.op = "_get_reordered_components"
    => LET loaded == without_debug(call.arg.components)
       IN  /\ Len(call.result) = Len(loaded)
           /\ \A name \in Range(loaded) : Occurrences(call.result, name) = 1

\* C37: every command handed to the reader consists of byte values only,
\* and its Lc byte is the number of bytes that follow it (data and MAC),
\* whatever the chunk hints, the security level and the block number
C37_EveryApduIsBytes ==
    \A i \in 1..Len(call.sent) :
        LET w == call.sent[i].wire
        IN  /\ AllBytes(w.hdr)
            /\ AllBytes(w.body.data)
            /\ Len(w.hdr) = 5 => w.hdr[5] = w.body.size + w.mac.size

\* C38: whenever the engine has a security level other than None it holds
\* session ENC and MAC keys and its last EXTERNAL AUTHENTICATE since the
\* last reset returned 90 00; and an SCP03 engine has a counter of at least
\* 1 exactly when it is marked authenticated, and a counter of 0 otherwise
C38_LevelImpliesAuthenticated ==
    /\ scp.sec_level # SCP_SECLEVEL_NO_SECURITY_LEVEL
       => /\ ghost
          /\ scp.session_enc # NoKey
          /\ scp.session_mac # NoKey
    /\ scp.proto = "SCP03"
       => /\ scp.is_mutually_authenticated <=> scp.encryption_counter >= 1
          /\ ~scp.is_mutually_authenticated => scp.encryption_counter = 0

\* C38 witness: an SCP03 engine at C-MAC + C-DECRYPTION has sent a command
\* of a content operation after its EXTERNAL AUTHENTICATE
C38_Witness ==
    /\ scp.proto = "SCP03"
    /\ scp.sec_level = SCP_SECLEVEL_C_MAC + SCP_SECLEVEL_C_DECRYPTION
    /\ scp.is_mutually_authenticated
    /\ scp.encryption_counter >= 2
    /\ call.op \in ContentOps
    /\ call.sent # <<>>

\* the last call is a list_content on an established session whose GET
\* STATUS commands were all sent, down to those for the packages (P1 = 10)
ListedAll ==
    /\ call.op = "list_content"
    /\ ghost
    /\ agent.is_mutually_authenticated
    /\ call.sent # <<>>
    /\ call.sent[Len(call.sent)].input[3] = 16

\* C39: on an established session list_content completes and returns its
\* pair of lists whatever the card answered to the GET STATUS commands,
\* also when the card answered one of them with an error status and no data
C39_ListContentCompletes ==
    ListedAll => call.result = "ok"

\* an engine without its static MAC and DEK keys
WithoutMacAndDek(s) == [s EXCEPT !.static_mac = NoKey, !.static_dek = NoKey]

\* C40: two SCP03 engines that differ only in their static MAC and DEK
\* keys and are given the same challenges, answers and commands hold the
\* same session ENC and MAC keys, return the same from every method (so
\* they accept the same card cryptograms) and hand identical commands to
\* the reader; they differ in nothing but those two static keys
C40_StaticMacAndDekAreUnused ==
    /\ scp.session_enc = call.twin.session_enc
    /\ scp.session_mac = call.twin.session_mac
    /\ call.result[1] = call.result[2]
    /\ call.sent = call.twin_sent
    /\ WithoutMacAndDek(scp) = WithoutMacAndDek(call.twin)

\* C40 witness: engines with different static MAC keys and different static
\* DEK keys accepted the card cryptogram, were authenticated at C-MAC +
\* C-DECRYPTION and sent an encrypted command with a MAC
C40_Witness ==
    /\ call.op = "send_secure_apdu"
    /\ scp.static_mac # call.twin.static_mac
    /\ scp.static_dek # call.twin.static_dek
    /\ scp.is_mutually_authenticated
    /\ scp.sec_level = SCP_SECLEVEL_C_MAC + SCP_SECLEVEL_C_DECRYPTION
    /\ call.sent # <<>>
    /\ call.sent[1].body.sym = "enc"
    /\ call.sent[1].mac # NoMac


====
